---- MODULE Spec2Model ----
(***************************************************************************)
(* A model of the structured query builder of my-first-python-app.        *)
(*                                                                         *)
(* build_statement (src/src/query_builder.py) turns a criteria mapping     *)
(* into a psycopg Composed command and a list of bound values.  It drives  *)
(* the clause parsers of query_builder.py, which call the expression       *)
(* parser of expression_parser.py, which calls build_statement again for   *)
(* a sub-query.                                                            *)
(*                                                                         *)
(* Python values are kept with their Python type:                          *)
(*   - a dict is a record (a function on its string keys);                 *)
(*   - a list is [py |-> "list", items |-> <<...>>];                       *)
(*   - a scalar is [py |-> T, lit |-> L], T the Python type name and L the *)
(*     literal as text;                                                    *)
(*   - a dict whose iteration order matters (the SET of an UPDATE) is      *)
(*     [py |-> "dict", items |-> <<[key |-> k, val |-> v], ...>>].         *)
(* A command is the sequence of the psycopg objects composed into it:      *)
(* sql.SQL(text), sql.Identifier(name), sql.Placeholder().                 *)
(* A call returns Ok(statement, values) or raises: Raise(exc, msg, values) *)
(* keeps the values list because the list object is appended to in place.  *)
(*                                                                         *)
(* criteria, pc, statement, values, raised and returned are one call of    *)
(* build_statement in progress: its argument, the block it is at, its two  *)
(* locals and its outcome.  calls keeps the outcomes of the calls made     *)
(* before it on the same criteria, and other is a second call in progress  *)
(* in another thread.                                                      *)
(***************************************************************************)
EXTENDS Integers, Sequences, FiniteSets, TLC

VARIABLES criteria, pc, statement, values, raised, returned, calls, other

vars == <<criteria, pc, statement, values, raised, returned, calls, other>>

(***************************************************************************)
(* Python values                                                           *)
(***************************************************************************)
PyStr(s) == [py |-> "str", lit |-> s]

PyInt(s) == [py |-> "int", lit |-> s]

PyFloat(s) == [py |-> "float", lit |-> s]

PyBool(s) == [py |-> "bool", lit |-> s]

PyNone == [py |-> "NoneType", lit |-> "None"]

PyTrue == PyBool("True")

PyFalse == PyBool("False")

PyList(seq) == [py |-> "list", items |-> seq]

Pair(k, v) == [key |-> k, val |-> v]

PyDict(pairs) == [py |-> "dict", items |-> pairs]

EmptyDict == [k \in {} |-> PyNone]

IsDict(v) == "py" \notin DOMAIN v

IsList(v) == "py" \in DOMAIN v /\ v.py = "list"

IsOrderedDict(v) == "py" \in DOMAIN v /\ v.py = "dict"

IsScalar(v) == "py" \in DOMAIN v /\ v.py \notin {"list", "dict"}

IsStr(v) == "py" \in DOMAIN v /\ v.py = "str"

IsNone(v) == "py" \in DOMAIN v /\ v.py = "NoneType"

IsBool(v) == "py" \in DOMAIN v /\ v.py = "bool"

\* isinstance(v, int): bool is a subclass of int
IsInt(v) == "py" \in DOMAIN v /\ v.py \in {"int", "bool"}

IsFloat(v) == "py" \in DOMAIN v /\ v.py = "float"

\* bool(v)
Truthy(v) ==
    IF IsDict(v) THEN DOMAIN v # {}
    ELSE IF v.py \in {"list", "dict"} THEN v.items # <<>>
    ELSE IF v.py = "NoneType" THEN FALSE
    ELSE IF v.py = "bool" THEN v.lit = "True"
    ELSE IF v.py = "int" THEN v.lit # "0"
    ELSE IF v.py = "float" THEN v.lit # "0.0"
    ELSE v.lit # ""

\* int(v) of a bool, as text
BoolAsInt(v) == PyInt(IF Truthy(v) THEN "1" ELSE "0")

\* bool(v): the bool object True or False
Bool(v) == IF Truthy(v) THEN PyTrue ELSE PyFalse

\* str.upper() on the tokens the inputs use
Upper(s) ==
    CASE s = "union" -> "UNION"
      [] s = "Union" -> "UNION"
      [] s = "intersect" -> "INTERSECT"
      [] s = "except" -> "EXCEPT"
      [] s = "inner" -> "INNER"
      [] s = "Inner" -> "INNER"
      [] s = "left" -> "LEFT"
      [] s = "right" -> "RIGHT"
      [] s = "full" -> "FULL"
      [] s = "cross" -> "CROSS"
      [] s = "natural" -> "NATURAL"
      [] s = "max" -> "MAX"
      [] s = "trim" -> "TRIM"
      [] s = "upper" -> "UPPER"
      [] s = "lower" -> "LOWER"
      [] s = "in" -> "IN"
      [] s = "and" -> "AND"
      [] s = "or" -> "OR"
      [] s = "not" -> "NOT"
      [] s = "cast" -> "CAST"
      [] s = "is" -> "IS"
      [] s = "between" -> "BETWEEN"
      [] s = "foo" -> "FOO"
      [] s = "asc" -> "ASC"
      [] s = "desc" -> "DESC"
      [] s = "sideways" -> "SIDEWAYS"
      [] s = "decimal" -> "DECIMAL"
      [] s = "integer" -> "INTEGER"
      [] s = "money2" -> "MONEY2"
      [] s = "year" -> "YEAR"
      [] s = "eon" -> "EON"
      [] s = "character" -> "CHARACTER"
      [] OTHER -> s

(***************************************************************************)
(* psycopg.sql objects and the outcome of a call                           *)
(***************************************************************************)
SQL(s) == [k |-> "SQL", s |-> s]

Identifier(s) == [k |-> "Identifier", s |-> s]

Placeholder == [k |-> "Placeholder", s |-> "%s"]

Ok(st, vs) == [ok |-> TRUE, statement |-> st, values |-> vs, exc |-> "", msg |-> ""]

Raise(exc, msg, vs) ==
    [ok |-> FALSE, statement |-> <<>>, values |-> vs, exc |-> exc, msg |-> msg]

\* x taking the place of the statement
EmitInPlace(r, toks) == IF r.ok THEN [r EXCEPT !.statement = toks] ELSE r

\* statement + x after a call that may have raised
Emit(r, toks) == IF r.ok THEN [r EXCEPT !.statement = @ \o toks] ELSE r

\* statement + sql.Identifier(v): psycopg raises TypeError for a non-string
EmitIdentifier(r, v) ==
    IF ~r.ok THEN r
    ELSE IF IsStr(v) THEN Emit(r, <<Identifier(v.lit)>>)
    ELSE Raise("TypeError", "SQL identifier parts must be strings", r.values)

Has(d, key) == key \in DOMAIN d

(***************************************************************************)
(* src/src/expression_parser.py                                            *)
(*                                                                         *)
(* Every function takes and returns the pair (statement, values).  Here    *)
(* the pair is the record r, which is also how a raised exception travels: *)
(* a function given an r that holds an exception hands it on unchanged,    *)
(* as the statements after a raise are not run.                            *)
(***************************************************************************)
RECURSIVE ep_parse_expression(_, _, _, _)
RECURSIVE ep_parse_expression_list_from(_, _, _, _, _)
RECURSIVE ep_parse_function(_, _)
RECURSIVE ep_parse_operator(_, _)
RECURSIVE call_parser(_, _, _)
RECURSIVE build_statement(_, _)

NoJoiner == <<>>

NoParser == "None"

\* parse_expression_list: the loop from `index` on (index counts from 1)
ep_parse_expression_list_from(expressions, index, r, joiner, parser) ==
    IF ~r.ok \/ index > Len(expressions) THEN r
    ELSE ep_parse_expression_list_from(
             expressions, index + 1,
             call_parser(parser, expressions[index],
                         IF index > 1
                         THEN Emit(r, IF joiner # NoJoiner THEN joiner ELSE <<SQL(", ")>>)
                         ELSE r),
             joiner, parser)

ep_parse_expression_list(expressions, r, joiner, parser) ==
    ep_parse_expression_list_from(expressions, 1, r, joiner, parser)

RECURSIVE ep_parse_column_list_from(_, _, _)
ep_parse_column_list_from(columns, index, r) ==
    IF ~r.ok \/ index > Len(columns) THEN r
    ELSE ep_parse_column_list_from(columns, index + 1,
             EmitIdentifier(IF index > 1 THEN Emit(r, <<SQL(", ")>>) ELSE r,
                            columns[index]))

\* columns is iterated: a list of names
ep_parse_column_list(columns, r) ==
    IF ~r.ok THEN r
    ELSE IF ~IsList(columns) THEN Raise("TypeError", "columns is not a list", r.values)
    ELSE Emit(ep_parse_column_list_from(columns.items, 1, Emit(r, <<SQL(" (")>>)),
              <<SQL(")")>>)

\* the `correlation` block of parse_column
ep_correlation(r, kwargs) ==
    IF r.ok /\ Has(kwargs, "correlation")
    THEN Emit(EmitIdentifier(r, kwargs.correlation), <<SQL(".")>>)
    ELSE r

\* parse_column writing the column name as raw text
ep_parse_column_raw(r, kwargs) ==
    IF ~r.ok THEN r
    ELSE IF ~Has(kwargs, "column")
    THEN Raise("ValueError", "Column reference requires 'column' argument", r.values)
    ELSE IF IsStr(kwargs.column)
    THEN Emit(ep_correlation(r, kwargs), <<SQL(kwargs.column.lit)>>)
    ELSE EmitIdentifier(ep_correlation(r, kwargs), kwargs.column)

ep_parse_column(r, kwargs) ==
    IF ~r.ok THEN r
    ELSE IF ~Has(kwargs, "column")
    THEN Raise("ValueError", "Column reference requires 'column' argument", r.values)
    ELSE IF IsStr(kwargs.column) /\ kwargs.column.lit = "*"
    THEN Emit(ep_correlation(r, kwargs), <<SQL("*")>>)
    ELSE EmitIdentifier(ep_correlation(r, kwargs), kwargs.column)

FunctionNames_ep == {"MAX", "TRIM", "UPPER"}

ep_parse_function(r, kwargs) ==
    IF ~r.ok THEN r
    ELSE IF ~Has(kwargs, "function_name")
    THEN Raise("ValueError", "Function call requires 'function_name' argument", r.values)
    ELSE IF ~IsStr(kwargs.function_name) THEN Raise("AttributeError", "upper", r.values)
    ELSE IF Upper(kwargs.function_name.lit) \notin FunctionNames_ep
    THEN Raise("ValueError", "Unsupported function", r.values)
    ELSE Emit(ep_parse_expression(
                  IF Has(kwargs, "args") THEN kwargs.args ELSE PyList(<<>>),
                  Emit(IF Has(kwargs, "schema_name")
                       THEN EmitIdentifier(Emit(r, <<SQL(".")>>), kwargs.schema_name)
                       ELSE r,
                       <<SQL(Upper(kwargs.function_name.lit)), SQL("(")>>),
                  NoJoiner, NoParser),
              <<SQL(")")>>)

ep_parse_infix_operator(operator, r, kwargs) ==
    IF ~r.ok THEN r
    ELSE IF ~(Has(kwargs, "left") /\ Has(kwargs, "right"))
    THEN Raise("ValueError", "Operator requires 'left' and 'right' arguments", r.values)
    ELSE ep_parse_expression(
             kwargs.right,
             Emit(ep_parse_expression(kwargs.left, r, NoJoiner, NoParser), <<operator>>),
             NoJoiner, NoParser)

ep_parse_prefix_operator(operator, r, kwargs) ==
    IF ~r.ok THEN r
    ELSE IF ~Has(kwargs, "operand")
    THEN Raise("ValueError", "Operator requires 'operand' argument", r.values)
    ELSE ep_parse_expression(kwargs.operand, Emit(r, <<operator>>), NoJoiner, NoParser)

ep_parse_mixed_operator(operator, r, kwargs) ==
    IF ~r.ok THEN r
    ELSE IF Has(kwargs, "left") /\ Has(kwargs, "right")
    THEN ep_parse_infix_operator(operator, r, kwargs)
    ELSE IF ~Has(kwargs, "operand") /\ ~Has(kwargs, "left")
    THEN Raise("KeyError", "left", r.values)
    ELSE IF ~IsNone(IF Has(kwargs, "operand") THEN kwargs.operand ELSE kwargs.left)
    THEN ep_parse_prefix_operator(
             operator, r,
             [operand |-> IF Has(kwargs, "operand") THEN kwargs.operand ELSE kwargs.left]
                 @@ kwargs)
    ELSE Raise("ValueError",
               "Operator requires 'operand', 'left', and/or 'right' arguments", r.values)

\* parse_operator_and and parse_operator_or differ in the joiner only
ep_parse_operator_and_or(joiner, r, kwargs) ==
    IF ~r.ok THEN r
    ELSE IF ~Has(kwargs, "expressions")
    THEN Raise("ValueError", "AND operator requires 'expressions' argument", r.values)
    ELSE Emit(ep_parse_expression(kwargs.expressions, Emit(r, <<SQL("(")>>),
                                  <<joiner>>, NoParser),
              <<SQL(")")>>)

ep_parse_operator_and(r, kwargs) == ep_parse_operator_and_or(SQL(" AND "), r, kwargs)

ep_parse_operator_or(r, kwargs) == ep_parse_operator_and_or(SQL(" OR "), r, kwargs)

DataTypes_ep ==
    {"BIGINT", "BIGSERIAL", "BIT", "BOOLEAN", "BOX", "BYTEA", "CHARACTER",
     "CIRCLE", "DATE", "DECIMAL", "DOUBLE PRECISION", "INTEGER", "INTERVAL",
     "JSON", "JSONB", "LINE", "LSEG", "MONEY", "NUMERIC", "PATH", "POINT",
     "POLYGON", "REAL", "REGCLASS", "SERIAL", "SMALLINT", "SMALLSERIAL",
     "TEXT", "TIME", "TIMESTAMP", "UUID", "XML"}

TimeIntervals_ep ==
    {"YEAR", "MONTH", "DAY", "HOUR", "MINUTE", "SECOND", "YEAR TO MONTH",
     "DAY TO HOUR", "DAY TO MINUTE", "DAY TO SECOND", "HOUR TO MINUTE",
     "HOUR TO SECOND", "MINUTE TO SECOND"}

\* the tail of parse_operator_cast, from the interval on
ep_cast_modifiers(r, kwargs) ==
    IF ~r.ok THEN r
    ELSE IF Has(kwargs, "interval") /\ ~IsStr(kwargs.interval)
    THEN Raise("AttributeError", "upper", r.values)
    ELSE IF Has(kwargs, "interval") /\ Upper(kwargs.interval.lit) \notin TimeIntervals_ep
    THEN Raise("ValueError", "Unsupported INTERVAL type", r.values)
    ELSE Emit(r,
              (IF Has(kwargs, "interval")
               THEN <<SQL(Upper(kwargs.interval.lit))>> ELSE <<>>)
              \o (IF Has(kwargs, "varying") /\ Truthy(kwargs.varying)
                  THEN <<SQL(" VARYING")>> ELSE <<>>)
              \o (IF Has(kwargs, "length") /\ IsInt(kwargs.length)
                  THEN <<SQL("(" \o kwargs.length.lit \o ")")>>
                  ELSE IF Has(kwargs, "precision") /\ IsInt(kwargs.precision)
                  THEN <<SQL("(" \o kwargs.precision.lit)>>
                       \o (IF Has(kwargs, "scale") /\ IsInt(kwargs.scale)
                           THEN <<SQL(", " \o kwargs.scale.lit)>> ELSE <<>>)
                       \o <<SQL(")")>>
                  ELSE <<>>)
              \o (IF Has(kwargs, "with_time_zone") /\ Truthy(kwargs.with_time_zone)
                  THEN <<SQL(" WITH TIME ZONE")>> ELSE <<>>)
              \o <<SQL(")")>>)

ep_parse_operator_cast(r, kwargs) ==
    IF ~r.ok THEN r
    ELSE IF ~(Has(kwargs, "expression") /\ Has(kwargs, "type"))
    THEN Raise("ValueError", "CAST operator requires 'expression' and 'type' arguments",
               r.values)
    ELSE IF ~IsStr(kwargs.type) THEN Raise("AttributeError", "upper", r.values)
    ELSE IF Upper(kwargs.type.lit) \notin DataTypes_ep
    THEN Raise("ValueError", "Unsupported CAST type", r.values)
    ELSE ep_cast_modifiers(
             Emit(ep_parse_expression(kwargs.expression, Emit(r, <<SQL("CAST(")>>),
                                      NoJoiner, NoParser),
                  <<SQL(" AS " \o Upper(kwargs.type.lit))>>),
             kwargs)

\* parse_operator_in taking a `right` that is no list as a list of one
ep_parse_operator_in_lenient(r, kwargs) ==
    IF ~r.ok THEN r
    ELSE IF ~(Has(kwargs, "left") /\ Has(kwargs, "right"))
    THEN Raise("ValueError", "IN operator requires 'left' and 'right' arguments", r.values)
    ELSE Emit(ep_parse_expression(
                  IF IsList(kwargs.right) THEN kwargs.right ELSE PyList(<<kwargs.right>>),
                  Emit(ep_parse_expression(kwargs.left, r, NoJoiner, NoParser),
                       <<SQL(" IN (")>>),
                  NoJoiner, NoParser),
              <<SQL(")")>>)

ep_parse_operator_in(r, kwargs) ==
    IF ~r.ok THEN r
    ELSE IF ~(Has(kwargs, "left") /\ Has(kwargs, "right"))
    THEN Raise("ValueError", "IN operator requires 'left' and 'right' arguments", r.values)
    ELSE IF ~IsList(kwargs.right)
    THEN Raise("ValueError", "IN operator 'right' argument must be a list", r.values)
    ELSE Emit(ep_parse_expression(
                  kwargs.right,
                  Emit(ep_parse_expression(kwargs.left, r, NoJoiner, NoParser),
                       <<SQL(" IN (")>>),
                  NoJoiner, NoParser),
              <<SQL(")")>>)

\* TRIM( and the side parse_operator_trim writes first
ep_trim_open(r, kwargs) ==
    Emit(r, <<SQL("TRIM(")>>
            \o (IF Has(kwargs, "both") /\ Truthy(kwargs.both) THEN <<SQL("BOTH ")>>
                ELSE IF Has(kwargs, "trailing") /\ Truthy(kwargs.trailing)
                THEN <<SQL("TRAILING ")>>
                ELSE IF Has(kwargs, "leading") /\ Truthy(kwargs.leading)
                THEN <<SQL("LEADING ")>>
                ELSE <<>>))

\* the `characters` block of parse_operator_trim
ep_trim_characters(r, kwargs) ==
    IF r.ok /\ Has(kwargs, "characters")
    THEN Emit(ep_parse_expression(kwargs.characters, r, NoJoiner, NoParser), <<SQL(" ")>>)
    ELSE r

ep_parse_operator_trim(r, kwargs) ==
    IF ~r.ok THEN r
    ELSE IF ~Has(kwargs, "expression")
    THEN Raise("ValueError", "TRIM operator requires 'expression' argument", r.values)
    ELSE Emit(ep_parse_expression(
                  kwargs.expression,
                  Emit(ep_trim_characters(ep_trim_open(r, kwargs), kwargs),
                       <<SQL("FROM ")>>),
                  NoJoiner, NoParser),
              <<SQL(")")>>)

InfixTokens_ep == {"=", "!=", "<>", ">", "<", ">=", "<=", "*", "/", "%"}

ep_parse_operator(r, kwargs) ==
    IF ~r.ok THEN r
    ELSE IF ~Has(kwargs, "operator")
    THEN Raise("ValueError", "Operator requires 'operator' argument", r.values)
    ELSE IF ~IsStr(kwargs.operator) THEN Raise("AttributeError", "upper", r.values)
    ELSE CASE Upper(kwargs.operator.lit) \in InfixTokens_ep ->
                  ep_parse_infix_operator(SQL(" " \o Upper(kwargs.operator.lit) \o " "),
                                          r, kwargs)
           [] Upper(kwargs.operator.lit) \in {"+", "-"} ->
                  ep_parse_mixed_operator(SQL(" " \o Upper(kwargs.operator.lit) \o " "),
                                          r, kwargs)
           [] Upper(kwargs.operator.lit) = "AND" -> ep_parse_operator_and(r, kwargs)
           [] Upper(kwargs.operator.lit) = "CAST" -> ep_parse_operator_cast(r, kwargs)
           [] Upper(kwargs.operator.lit) = "IN" -> ep_parse_operator_in(r, kwargs)
           [] Upper(kwargs.operator.lit) = "OR" -> ep_parse_operator_or(r, kwargs)
           [] Upper(kwargs.operator.lit) = "TRIM" -> ep_parse_operator_trim(r, kwargs)
           [] OTHER -> Raise("ValueError", "Unsupported operator", r.values)

\* parse_value writing a string payload into the statement
ep_parse_value_inlined(r, kwargs) ==
    IF ~r.ok THEN r
    ELSE IF ~Has(kwargs, "value")
    THEN Raise("ValueError", "Value requires 'value' argument", r.values)
    ELSE IF IsStr(kwargs.value) THEN Emit(r, <<SQL(kwargs.value.lit)>>)
    ELSE IF IsScalar(kwargs.value)
    THEN Ok(r.statement \o <<Placeholder>>, Append(r.values, kwargs.value))
    ELSE Raise("ValueError", "Unsupported value type", r.values)

ep_parse_value(r, kwargs) ==
    IF ~r.ok THEN r
    ELSE IF ~Has(kwargs, "value")
    THEN Raise("ValueError", "Value requires 'value' argument", r.values)
    ELSE IF IsNone(kwargs.value)
    THEN Ok(r.statement \o <<Placeholder>>, Append(r.values, PyNone))
    ELSE IF IsBool(kwargs.value)
    THEN Ok(r.statement \o <<Placeholder>>, Append(r.values, Bool(kwargs.value)))
    ELSE IF IsInt(kwargs.value) \/ IsFloat(kwargs.value)
    THEN Ok(r.statement \o <<Placeholder>>, Append(r.values, kwargs.value))
    ELSE IF IsStr(kwargs.value)
    THEN Ok(r.statement \o <<Placeholder>>, Append(r.values, kwargs.value))
    ELSE Raise("ValueError", "Unsupported value type", r.values)

\* the nested command added without the parentheses
ep_wrap_sub_query_bare(r, sub) ==
    IF sub.ok THEN Ok(r.statement \o sub.statement, sub.values) ELSE sub

\* statement += SQL("(") + sub_query + SQL(")") after build_statement returned
\* `sub`; the list of `sub` is the caller's list, appended to
ep_wrap_sub_query(r, sub) ==
    IF sub.ok
    THEN Ok(r.statement \o <<SQL("(")>> \o sub.statement \o <<SQL(")")>>, sub.values)
    ELSE sub

\* the branch parse_expression takes.  `"key" in expression` for an
\* expression that is no list: a mapping looks the key up; a string looks
\* for a substring (none of the strings used holds a key as a substring);
\* any other scalar raises TypeError.
ep_dispatch(expression) ==
    IF IsList(expression) THEN "list"
    ELSE IF IsStr(expression) THEN "invalid"
    ELSE IF ~IsDict(expression) THEN "not iterable"
    ELSE IF Has(expression, "column") THEN "column"
    ELSE IF Has(expression, "function_name") THEN "function"
    ELSE IF Has(expression, "operator") THEN "operator"
    ELSE IF Has(expression, "value") THEN "value"
    ELSE IF Has(expression, "default") /\ Truthy(expression.default) THEN "default"
    ELSE IF Has(expression, "sub_query") THEN "sub query"
    ELSE "invalid"

ep_parse_expression(expression, r, joiner, parser) ==
    IF ~r.ok THEN r
    ELSE CASE ep_dispatch(expression) = "list" ->
                  ep_parse_expression_list(expression.items, r, joiner, parser)
           [] ep_dispatch(expression) = "not iterable" ->
                  Raise("TypeError", "argument is not iterable", r.values)
           [] ep_dispatch(expression) = "column" -> ep_parse_column(r, expression)
           [] ep_dispatch(expression) = "function" -> ep_parse_function(r, expression)
           [] ep_dispatch(expression) = "operator" -> ep_parse_operator(r, expression)
           [] ep_dispatch(expression) = "value" -> ep_parse_value(r, expression)
           [] ep_dispatch(expression) = "default" -> Emit(r, <<SQL("DEFAULT")>>)
           [] ep_dispatch(expression) = "sub query" ->
                  ep_wrap_sub_query(r, build_statement(expression.sub_query, r.values))
           [] OTHER -> Raise("ValueError", "Invalid expression", r.values)

(***************************************************************************)
(* src/src/models.py                                                       *)
(***************************************************************************)
\* get_expression_type; "raise" when it raises ValueError
get_expression_type(data) ==
    IF IsList(data) THEN "Sequence[ExpressionItem]"
    ELSE IF IsNone(data) THEN "none"
    ELSE IF IsBool(data) THEN "bool"
    ELSE IF IsInt(data) THEN "int"
    ELSE IF IsFloat(data) THEN "float"
    ELSE IF IsStr(data) THEN "str"
    ELSE IF Has(data, "column") THEN "column"
    ELSE IF Has(data, "default") THEN "default"
    ELSE IF Has(data, "function name") THEN "function"
    ELSE IF Has(data, "operator") THEN "operator"
    ELSE IF Has(data, "sub query") THEN "sub query"
    ELSE IF Has(data, "value") THEN "value"
    ELSE "raise"

(***************************************************************************)
(* src/src/query_builder.py                                                *)
(***************************************************************************)
CombineTypes == {"UNION", "INTERSECT", "EXCEPT"}

JoinTypes == {"INNER", "LEFT", "RIGHT", "FULL", "CROSS"}

\* the checks of parse_combine without the one on the last item
qb_combine_check_lenient(item, is_last, r) ==
    IF ~r.ok \/ is_last THEN r
    ELSE IF ~Has(item, "type")
    THEN Raise("ValueError", "Intermediate combine items must have 'type'", r.values)
    ELSE IF ~IsStr(item.type) THEN Raise("AttributeError", "upper", r.values)
    ELSE IF Upper(item.type.lit) \notin CombineTypes
    THEN Raise("ValueError", "Invalid combine type", r.values)
    ELSE Emit(r, <<SQL(" " \o Upper(item.type.lit) \o " "),
                   IF Has(item, "all") /\ Truthy(item.all)
                   THEN SQL("ALL ") ELSE SQL("DISTINCT ")>>)

\* parse_combine writing DISTINCT after every keyword
qb_combine_check_distinct(item, is_last, r) ==
    IF ~r.ok THEN r
    ELSE IF ~is_last
    THEN IF ~Has(item, "type")
         THEN Raise("ValueError", "Intermediate combine items must have 'type'", r.values)
         ELSE IF ~IsStr(item.type) THEN Raise("AttributeError", "upper", r.values)
         ELSE IF Upper(item.type.lit) \notin CombineTypes
         THEN Raise("ValueError", "Invalid combine type", r.values)
         ELSE Emit(r, <<SQL(" " \o Upper(item.type.lit) \o " "), SQL("DISTINCT ")>>)
    ELSE IF Has(item, "type") \/ Has(item, "all")
    THEN Raise("ValueError", "Last combine item cannot have 'type' or 'all'", r.values)
    ELSE r

\* the checks parse_combine makes on an item after it has compiled it
qb_combine_check(item, is_last, r) ==
    IF ~r.ok THEN r
    ELSE IF ~is_last
    THEN IF ~Has(item, "type")
         THEN Raise("ValueError", "Intermediate combine items must have 'type'", r.values)
         ELSE IF ~IsStr(item.type) THEN Raise("AttributeError", "upper", r.values)
         ELSE IF Upper(item.type.lit) \notin CombineTypes
         THEN Raise("ValueError", "Invalid combine type", r.values)
         ELSE Emit(r, <<SQL(" " \o Upper(item.type.lit) \o " "),
                        IF Has(item, "all") /\ Truthy(item.all)
                        THEN SQL("ALL ") ELSE SQL("DISTINCT ")>>)
    ELSE IF Has(item, "type") \/ Has(item, "all")
    THEN Raise("ValueError", "Last combine item cannot have 'type' or 'all'", r.values)
    ELSE r

RECURSIVE qb_parse_combine_from(_, _, _)
qb_parse_combine_from(items, index, r) ==
    IF ~r.ok \/ index > Len(items) THEN r
    ELSE qb_parse_combine_from(
             items, index + 1,
             qb_combine_check(items[index], index = Len(items),
                              ep_parse_expression(items[index], r, NoJoiner, NoParser)))

qb_parse_combine(items, r) == qb_parse_combine_from(items.items, 1, r)

\* the name and the column list parse_with_item writes before ` AS`
qb_with_name(item, r) ==
    EmitIdentifier(IF r.ok /\ Has(item, "recursive") /\ Truthy(item.recursive)
                   THEN Emit(r, <<SQL("RECURSIVE ")>>) ELSE r,
                   item.name)

qb_with_columns(item, r) ==
    IF r.ok /\ Has(item, "columns") THEN ep_parse_column_list(item.columns, r) ELSE r

qb_parse_with_item(item, r) ==
    IF ~r.ok THEN r
    ELSE IF ~(Has(item, "name") /\ Has(item, "sub_query"))
    THEN Raise("ValueError", "WITH item must have 'name' and 'sub_query'", r.values)
    ELSE ep_parse_expression(
             item,
             Emit(qb_with_columns(item, qb_with_name(item, r)),
                  <<SQL(" AS")>>
                  \o (IF Has(item, "materialized")
                      THEN IF Truthy(item.materialized)
                           THEN <<SQL(" MATERIALIZED")>>
                           ELSE <<SQL(" NOT MATERIALIZED")>>
                      ELSE <<>>)
                  \o <<SQL(" ")>>),
             NoJoiner, NoParser)

qb_parse_with(items, r) ==
    ep_parse_expression_list(items.items, Emit(r, <<SQL(" WITH ")>>), NoJoiner,
                             "parse_with_item")

qb_parse_delete(r) == Emit(r, <<SQL(" DELETE ")>>)

\* `AS alias` when the item has an alias
qb_alias(item, r) ==
    IF r.ok /\ Has(item, "alias")
    THEN EmitIdentifier(Emit(r, <<SQL(" AS ")>>), item.alias)
    ELSE r

qb_parse_insert(item, r) ==
    IF ~r.ok THEN r
    ELSE IF ~Has(item, "table")
    THEN Raise("ValueError", "INSERT statement must have 'table'", r.values)
    ELSE qb_with_columns(
             item, qb_alias(item, EmitIdentifier(Emit(r, <<SQL(" INSERT INTO ")>>),
                                                 item.table)))

qb_parse_select_item(item, r) ==
    qb_alias(item, ep_parse_expression(item, r, NoJoiner, NoParser))

qb_parse_select(items, r) ==
    ep_parse_expression_list(items.items, Emit(r, <<SQL(" SELECT ")>>), NoJoiner,
                             "parse_select_item")

RECURSIVE qb_parse_update_set_from_reversed(_, _, _)
\* the loop of parse_update going through the mapping from its last entry
qb_parse_update_set_from_reversed(pairs, index, r) ==
    IF ~r.ok \/ index > Len(pairs) THEN r
    ELSE qb_parse_update_set_from_reversed(
             pairs, index + 1,
             ep_parse_expression(
                 pairs[Len(pairs) + 1 - index].val,
                 Emit(EmitIdentifier(IF index > 1 THEN Emit(r, <<SQL(", ")>>) ELSE r,
                                     pairs[Len(pairs) + 1 - index].key),
                      <<SQL(" = ")>>),
                 NoJoiner, NoParser))

RECURSIVE qb_parse_update_set_from(_, _, _)
qb_parse_update_set_from(pairs, index, r) ==
    IF ~r.ok \/ index > Len(pairs) THEN r
    ELSE qb_parse_update_set_from(
             pairs, index + 1,
             ep_parse_expression(
                 pairs[index].val,
                 Emit(EmitIdentifier(IF index > 1 THEN Emit(r, <<SQL(", ")>>) ELSE r,
                                     pairs[index].key),
                      <<SQL(" = ")>>),
                 NoJoiner, NoParser))

\* the `set` check and the loop of parse_update, after the table and alias
qb_parse_update_set(item, r) ==
    IF ~r.ok THEN r
    ELSE IF ~Has(item, "set") \/ ~IsOrderedDict(item.set)
    THEN Raise("ValueError", "UPDATE statement must have 'set' clause as a dictionary",
               r.values)
    ELSE qb_parse_update_set_from(item.set.items, 1, Emit(r, <<SQL(" SET ")>>))

qb_parse_update(item, r) ==
    IF ~r.ok THEN r
    ELSE IF ~Has(item, "table")
    THEN Raise("ValueError", "UPDATE statement must have 'table'", r.values)
    ELSE qb_parse_update_set(
             item, qb_alias(item, EmitIdentifier(Emit(r, <<SQL(" UPDATE ")>>), item.table)))

RECURSIVE qb_parse_values_from_unwrapped(_, _, _)
\* the loop of parse_values without the parentheses around an item
qb_parse_values_from_unwrapped(items, index, r) ==
    IF ~r.ok \/ index > Len(items) THEN r
    ELSE qb_parse_values_from_unwrapped(
             items, index + 1,
             ep_parse_expression(items[index],
                                 IF index > 1 THEN Emit(r, <<SQL(", ")>>) ELSE r,
                                 NoJoiner, NoParser))

RECURSIVE qb_parse_values_from(_, _, _)
qb_parse_values_from(items, index, r) ==
    IF ~r.ok \/ index > Len(items) THEN r
    ELSE qb_parse_values_from(
             items, index + 1,
             Emit(ep_parse_expression(
                      items[index],
                      Emit(IF index > 1 THEN Emit(r, <<SQL(", ")>>) ELSE r, <<SQL("(")>>),
                      NoJoiner, NoParser),
                  <<SQL(")")>>))

qb_parse_values(items, r) == qb_parse_values_from(items.items, 1, Emit(r, <<SQL(" VALUES ")>>))

qb_parse_from_item(item, r) ==
    IF ~r.ok THEN r
    ELSE IF Has(item, "sub_query")
    THEN qb_alias(item, ep_parse_expression(item, r, NoJoiner, NoParser))
    ELSE IF Has(item, "table") THEN qb_alias(item, EmitIdentifier(r, item.table))
    ELSE Raise("ValueError", "Invalid FROM item", r.values)

\* the checks and the JOIN keyword parse_from writes before a later item
qb_parse_from_join(item, r) ==
    IF ~r.ok THEN r
    ELSE IF ~Has(item, "type")
    THEN Raise("ValueError", "JOIN items must have 'type'", r.values)
    ELSE IF ~IsStr(item.type) THEN Raise("AttributeError", "upper", r.values)
    ELSE IF Upper(item.type.lit) \notin JoinTypes
    THEN Raise("ValueError", "Invalid join type", r.values)
    ELSE Emit(r, <<SQL(" " \o Upper(item.type.lit) \o " JOIN ")>>)

RECURSIVE qb_parse_from_from(_, _, _)
qb_parse_from_from(items, index, r) ==
    IF ~r.ok \/ index > Len(items) THEN r
    ELSE qb_parse_from_from(
             items, index + 1,
             qb_parse_from_item(items[index],
                                IF index > 1 THEN qb_parse_from_join(items[index], r)
                                ELSE r))

qb_parse_from(items, r) == qb_parse_from_from(items.items, 1, Emit(r, <<SQL(" FROM ")>>))

qb_parse_where(items, r) ==
    ep_parse_expression_list(items.items, Emit(r, <<SQL(" WHERE ")>>),
                             <<SQL(" AND ")>>, NoParser)

qb_parse_group_by(items, r) ==
    ep_parse_expression_list(items.items, Emit(r, <<SQL(" GROUP BY ")>>),
                             <<SQL(" AND ")>>, NoParser)

qb_parse_having(items, r) ==
    ep_parse_expression_list(items.items, Emit(r, <<SQL(" HAVING ")>>),
                             <<SQL(" AND ")>>, NoParser)

qb_parse_order_by_item(item, r) ==
    IF ~r.ok THEN r
    ELSE IF ~IsDict(item) THEN Raise("AttributeError", "items", r.values)
    ELSE IF Has(item, "direction") /\ ~IsStr(item.direction)
    THEN Raise("AttributeError", "upper", r.values)
    ELSE IF (IF Has(item, "direction") THEN Upper(item.direction.lit) ELSE "ASC")
               \notin {"ASC", "DESC"}
    THEN Raise("ValueError", "Invalid ORDER BY direction", r.values)
    ELSE Emit(ep_parse_expression([key \in DOMAIN item \ {"direction"} |-> item[key]],
                                  r, NoJoiner, NoParser),
              <<SQL(" " \o (IF Has(item, "direction") THEN Upper(item.direction.lit)
                            ELSE "ASC"))>>)

qb_parse_order_by(items, r) ==
    ep_parse_expression_list(items.items, Emit(r, <<SQL(" ORDER BY ")>>), NoJoiner,
                             "parse_order_by_item")

qb_parse_limit(item, r) ==
    ep_parse_expression(item, Emit(r, <<SQL(" LIMIT ")>>), NoJoiner, NoParser)

qb_parse_offset(item, r) ==
    ep_parse_expression(item, Emit(r, <<SQL(" OFFSET ")>>), NoJoiner, NoParser)

qb_parse_returning(items, r) ==
    ep_parse_expression_list(items.items, Emit(r, <<SQL(" RETURNING ")>>),
                             NoJoiner, NoParser)

\* parse_expression_list: parser(expression, statement, values) if parser
\* else parse_expression(expression, statement, values)
call_parser(parser, expression, r) ==
    CASE parser = "parse_with_item" -> qb_parse_with_item(expression, r)
      [] parser = "parse_select_item" -> qb_parse_select_item(expression, r)
      [] parser = "parse_order_by_item" -> qb_parse_order_by_item(expression, r)
      [] OTHER -> ep_parse_expression(expression, r, NoJoiner, NoParser)

\* build_statement: one operator per `if` block, in the order of the source
step_combine(c, r) == IF r.ok /\ Has(c, "combine") THEN qb_parse_combine(c.combine, r) ELSE r

step_with(c, r) == IF r.ok /\ Has(c, "with") THEN qb_parse_with(c.with, r) ELSE r

\* the four verb branches as four `if` blocks, one after the other
verb_delete(c, r) == IF r.ok /\ Has(c, "delete") THEN qb_parse_delete(r) ELSE r

verb_insert(c, r) == IF r.ok /\ Has(c, "insert") THEN qb_parse_insert(c.insert, r) ELSE r

verb_select(c, r) == IF r.ok /\ Has(c, "select") THEN qb_parse_select(c.select, r) ELSE r

verb_update(c, r) == IF r.ok /\ Has(c, "update") THEN qb_parse_update(c.update, r) ELSE r

step_verb_every(c, r) == verb_update(c, verb_select(c, verb_insert(c, verb_delete(c, r))))

step_verb(c, r) ==
    IF ~r.ok THEN r
    ELSE IF Has(c, "delete") THEN qb_parse_delete(r)
    ELSE IF Has(c, "insert") THEN qb_parse_insert(c.insert, r)
    ELSE IF Has(c, "select") THEN qb_parse_select(c.select, r)
    ELSE IF Has(c, "update") THEN qb_parse_update(c.update, r)
    ELSE r

step_values(c, r) == IF r.ok /\ Has(c, "values") THEN qb_parse_values(c.values, r) ELSE r

step_from(c, r) == IF r.ok /\ Has(c, "from") THEN qb_parse_from(c.from, r) ELSE r

\* the WHERE block writing its keyword whether or not the key is present
step_where_unguarded(c, r) ==
    IF ~r.ok THEN r
    ELSE IF Has(c, "where") THEN qb_parse_where(c.where, r)
    ELSE Emit(r, <<SQL(" WHERE ")>>)

step_where(c, r) == IF r.ok /\ Has(c, "where") THEN qb_parse_where(c.where, r) ELSE r

step_group_by(c, r) ==
    IF r.ok /\ Has(c, "group_by") THEN qb_parse_group_by(c.group_by, r) ELSE r

step_having(c, r) == IF r.ok /\ Has(c, "having") THEN qb_parse_having(c.having, r) ELSE r

step_order_by(c, r) ==
    IF r.ok /\ Has(c, "order_by") THEN qb_parse_order_by(c.order_by, r) ELSE r

step_limit(c, r) == IF r.ok /\ Has(c, "limit") THEN qb_parse_limit(c.limit, r) ELSE r

step_offset(c, r) == IF r.ok /\ Has(c, "offset") THEN qb_parse_offset(c.offset, r) ELSE r

step_returning(c, r) ==
    IF r.ok /\ Has(c, "returning") THEN qb_parse_returning(c.returning, r) ELSE r

\* build_statement(criteria, values): `vs` is the list the call appends to
\* (the caller's, or the fresh [] made when values is None)
build_statement(c, vs) ==
    step_returning(c, step_offset(c, step_limit(c, step_order_by(c, step_having(c,
    step_group_by(c, step_where(c, step_from(c, step_values(c, step_verb(c,
    step_with(c, step_combine(c, Ok(<<SQL("")>>, vs)))))))))))))

(***************************************************************************)
(* The criteria the caller may pass                                        *)
(***************************************************************************)
\* bounds of the input space
MaxClauses == 3

MaxChain == 2

MaxNest == 2

Col(name) == [column |-> PyStr(name)]

Val(payload) == [value |-> payload]

Eq(l, r) == [left |-> l, operator |-> PyStr("="), right |-> r]

Table(name) == [table |-> PyStr(name)]

SimpleSelect == [select |-> PyList(<<Col("a")>>), from |-> PyList(<<Table("t")>>)]

ValueSelect(payload) == [select |-> PyList(<<Val(payload)>>)]

\* payloads of Value nodes: the five supported types and two others
Payloads ==
    {PyNone, PyTrue, PyFalse, PyInt("5"), PyInt("0"), PyFloat("5.23"), PyStr("A"),
     PyStr("x' OR 1=1"), PyList(<<PyInt("1")>>), [nested |-> PyInt("1")]}

ClauseKeys ==
    {"combine", "with", "delete", "insert", "select", "update", "values", "from",
     "where", "group_by", "having", "order_by", "limit", "offset", "returning"}

\* one well-formed value for each clause key
ClauseSample(key) ==
    CASE key = "combine" ->
             PyList(<<[sub_query |-> SimpleSelect, type |-> PyStr("union")],
                      [sub_query |-> ValueSelect(PyInt("7"))]>>)
      [] key = "with" ->
             PyList(<<[name |-> PyStr("cte"), columns |-> PyList(<<PyStr("c")>>),
                       sub_query |-> ValueSelect(PyStr("w"))]>>)
      [] key = "delete" -> PyTrue
      [] key = "insert" -> [table |-> PyStr("t"), columns |-> PyList(<<PyStr("c")>>)]
      [] key = "select" -> PyList(<<Col("a"), Val(PyInt("1")) @@ [alias |-> PyStr("x")]>>)
      [] key = "update" ->
             [table |-> PyStr("t"), alias |-> PyStr("u"),
              set |-> PyDict(<<Pair(PyStr("c"), Val(PyStr("new"))),
                               Pair(PyStr("d"), [default |-> PyTrue])>>)]
      [] key = "values" -> PyList(<<PyList(<<Val(PyStr("A"))>>), PyList(<<Val(PyStr("B"))>>)>>)
      [] key = "from" -> PyList(<<Table("t")>>)
      [] key = "where" -> PyList(<<Eq(Col("a"), Val(PyInt("5")))>>)
      [] key = "group_by" -> PyList(<<Col("a")>>)
      [] key = "having" -> PyList(<<Eq(Col("a"), Val(PyStr("h")))>>)
      [] key = "order_by" -> PyList(<<[column |-> PyStr("a"), direction |-> PyStr("desc")]>>)
      [] key = "limit" -> Val(PyInt("100"))
      [] key = "offset" -> Val(PyInt("0"))
      [] key = "returning" -> PyList(<<Col("*")>>)

\* every choice of at most MaxClauses clause keys
PresenceSpecs ==
    {[key \in S |-> ClauseSample(key)] :
        S \in {T \in SUBSET ClauseKeys : Cardinality(T) <= MaxClauses}}

\* a mapping with the key absent, or present with one of the values
Opt(key, vals) == {EmptyDict} \cup {key :> v : v \in vals}

Op(token) == [operator |-> PyStr(token)]

Operands == {Col("a"), Val(PyInt("5")), Val(PyStr("A"))}

ComparisonPair == PyList(<<Eq(Col("a"), Val(PyInt("1"))), Eq(Col("b"), Val(PyStr("B")))>>)

AtomExprs ==
    {Col("a"), Col("*"), Col("a") @@ [correlation |-> PyStr("t")],
     Col("a") @@ [value |-> PyInt("5")], Col("*") @@ [correlation |-> PyStr("t")],
     [column |-> PyInt("3")],
     [default |-> PyTrue], [default |-> PyFalse], [alias |-> PyStr("x")],
     PyStr("raw"), PyInt("7"), PyList(<<>>), PyList(<<Col("a"), Val(PyStr("in list"))>>)}
    \cup {Val(p) : p \in Payloads}

InfixExprs ==
    {Op(tok) @@ [left |-> l, right |-> r] :
        tok \in InfixTokens_ep, l \in {Col("a")}, r \in {Val(PyInt("5"))}}
    \cup {Op("=") @@ [left |-> l, right |-> r] : l \in Operands, r \in Operands}
    \cup {Op("=") @@ [expressions |-> PyList(<<Col("a"), Val(PyInt("5"))>>)],
          Op("*") @@ [expressions |-> PyList(<<Val(PyInt("1")), Col("a"), Val(PyInt("2"))>>)]}
    \cup {Op("=") @@ [left |-> Col("a")], Op("=") @@ [right |-> Col("a")],
          [operator |-> PyNone, left |-> Col("a"), right |-> Col("b")]}

MixedExprs ==
    {Op(tok) @@ f :
        tok \in {"+", "-"},
        f \in {[left |-> Val(PyInt("1")), right |-> Val(PyInt("2"))],
               [operand |-> Val(PyInt("1"))], [left |-> Val(PyInt("1"))],
               [right |-> Val(PyInt("1"))], [operand |-> PyNone], EmptyDict,
               [expressions |-> PyList(<<Val(PyInt("1")), Val(PyInt("2"))>>)]}}

AndOrExprs ==
    {Op(tok) @@ f :
        tok \in {"AND", "and", "OR"},
        f \in {[expressions |-> ComparisonPair],
               [expressions |-> PyList(<<Eq(Col("a"), Val(PyInt("1")))>>)],
               [expressions |-> PyList(<<>>)],
               [expressions |-> Eq(Col("a"), Val(PyInt("1")))],
               [expressions |->
                   PyList(<<Op("AND") @@ [expressions |-> ComparisonPair],
                            Eq(Col("c"), Val(PyStr("C")))>>)],
               [left |-> Col("a"), right |-> Col("b")]}}

CastSizes ==
    {l @@ p @@ s :
        l \in Opt("length", {PyInt("0"), PyInt("5")}),
        p \in Opt("precision", {PyInt("0"), PyInt("5")}),
        s \in Opt("scale", {PyInt("2")})}

CastExprs ==
    {[operator |-> PyStr(tok), expression |-> Val(PyFloat("5.23")), type |-> PyStr(ty)] @@ f :
        tok \in {"CAST", "cast"}, ty \in {"DECIMAL"}, f \in CastSizes}
    \cup {[operator |-> PyStr("CAST"), expression |-> Col("a"), type |-> PyStr(ty)] @@ f :
        ty \in {"character", "BOGUS", "INTERVAL"},
        f \in {EmptyDict, [varying |-> PyTrue], [interval |-> PyStr("year")],
               [interval |-> PyStr("eon")], [with_time_zone |-> PyTrue],
               [length |-> PyStr("5")], [precision |-> PyNone, length |-> PyNone]}}
    \cup {Op("CAST") @@ [expression |-> Col("a")], Op("CAST") @@ [type |-> PyStr("TEXT")]}

InExprs ==
    {Op(tok) @@ f :
        tok \in {"IN", "in"},
        f \in {[left |-> Col("a"), right |-> PyList(<<Val(PyStr("A")), Val(PyStr("B"))>>)],
               [left |-> Col("a"), right |-> PyList(<<>>)],
               [left |-> Col("a"), right |-> Val(PyStr("A"))],
               [left |-> Val(PyInt("1")), right |-> PyInt("5")],
               [left |-> Val(PyInt("1")), right |-> PyStr("A")],
               [left |-> Val(PyInt("1")),
                right |-> PyList(<<[sub_query |-> ValueSelect(PyStr("S"))],
                                   Val(PyStr("T"))>>)],
               [left |-> Col("a")]}}

TrimExprs ==
    {Op("TRIM") @@ f :
        f \in {[expression |-> Val(PyStr("  pad  "))],
               [expression |-> Val(PyStr("  pad  ")), both |-> PyTrue],
               [expression |-> Col("a"), leading |-> PyTrue, trailing |-> PyTrue],
               [expression |-> Col("a"), characters |-> Val(PyStr("x")), both |-> PyFalse],
               [characters |-> Val(PyStr("x"))]}}

\* tokens outside the dispatch of expression_parser.parse_operator
OtherOperatorExprs ==
    {Op(tok) @@ f :
        tok \in {"FOO", "foo", "IS", "is", "BETWEEN", "NOT", "LIKE"},
        f \in {EmptyDict, [left |-> Col("a"), right |-> Val(PyInt("5"))],
               [left |-> Col("a")], [left |-> Col("a"), right |-> PyTrue],
               [left |-> Col("a"), right |-> PyFalse],
               [left |-> Val(PyStr("l")), right |-> PyNone],
               [left |-> Col("a"), right |-> PyStr("x")], [right |-> PyTrue],
               [operand |-> Col("a")], [expressions |-> ComparisonPair],
               [expression |-> Col("a"), left |-> Val(PyInt("1")),
                right |-> Val(PyInt("9"))]}}

FunctionExprs ==
    {[function_name |-> PyStr(fn)] @@ f :
        fn \in {"max", "MAX", "upper", "TRIM", "lower", "IN"},
        f \in {EmptyDict, [args |-> PyList(<<>>)], [args |-> PyList(<<Col("a")>>)],
               [args |-> PyList(<<Val(PyStr("s")), Val(PyInt("2"))>>)],
               [args |-> Val(PyStr("s"))],
               [args |-> PyList(<<Col("a")>>), schema_name |-> PyStr("sch")]}}
    \cup {[function_name |-> PyInt("1")]}

\* a sub-query nested `depth` deep, with a Value node before and after it
RECURSIVE NestExpr(_)
NestExpr(depth) ==
    IF depth = 0 THEN Val(PyStr("deep"))
    ELSE [sub_query |->
             [select |-> PyList(<<Val(PyInt("1")), NestExpr(depth - 1), Val(PyInt("2"))>>)]]

SubQueryExprs ==
    {NestExpr(d) : d \in 1..MaxNest}
    \cup {[sub_query |-> SimpleSelect], [sub_query |-> EmptyDict],
          [sub_query |-> [select |-> PyList(<<Op("FOO")>>)]],
          [sub_query |-> [select |-> PyList(<<Val(PyList(<<>>))>>)]],
          [sub_query |-> SimpleSelect, default |-> PyFalse],
          [sub_query |-> SimpleSelect, value |-> PyInt("5")]}

\* a node of the variant a discriminating key stands for
VariantSample(key) ==
    CASE key = "column" -> Col("a")
      [] key = "default" -> [default |-> PyTrue]
      [] key = "function_name" ->
             [function_name |-> PyStr("max"), args |-> PyList(<<Col("b")>>)]
      [] key = "operator" -> Eq(Col("c"), Val(PyInt("1")))
      [] key = "sub_query" -> [sub_query |-> SimpleSelect]
      [] key = "value" -> Val(PyInt("5"))

\* mappings that carry two discriminating keys
OverlapExprs ==
    {VariantSample(k1) @@ VariantSample(k2) :
        k1 \in {"column", "default", "function_name", "operator", "sub_query", "value"},
        k2 \in {"column", "default", "function_name", "operator", "sub_query", "value"}}

Exprs ==
    AtomExprs \cup InfixExprs \cup MixedExprs \cup AndOrExprs \cup CastExprs
    \cup InExprs \cup TrimExprs \cup OtherOperatorExprs \cup FunctionExprs
    \cup SubQueryExprs \cup OverlapExprs

\* an expression in each kind of position, with Value nodes around it
ExprSpecs ==
    UNION {
        {[select |-> PyList(<<e>>)],
         [select |-> PyList(<<Col("a")>>), from |-> PyList(<<Table("t")>>),
          where |-> PyList(<<Val(PyInt("1")), e, Val(PyInt("2"))>>)],
         [update |-> [table |-> PyStr("t"),
                      set |-> PyDict(<<Pair(PyStr("c"), e), Pair(PyStr("d"), Val(PyInt("9")))>>)]],
         [insert |-> [table |-> PyStr("t")], values |-> PyList(<<PyList(<<e>>), e>>)],
         [select |-> PyList(<<Col("a")>>), limit |-> e, returning |-> PyList(<<e>>)]}
        : e \in Exprs}

\* every list of at most n elements of S
SeqUpTo(S, n) == UNION {[1..m -> S] : m \in 0..n}

OnPredicates ==
    PyList(<<Eq(Col("k") @@ [correlation |-> PyStr("j")], Val(PyInt("7")))>>)

FromItems ==
    {Table("j") @@ ty @@ on :
        ty \in Opt("type", {PyStr("inner"), PyStr("CROSS"), PyStr("NATURAL")}),
        on \in Opt("on", {OnPredicates})}
    \cup {[sub_query |-> ValueSelect(PyStr("S")), alias |-> PyStr("s"),
           type |-> PyStr("LEFT"), on |-> PyList(<<Val(PyTrue), Val(PyStr("on"))>>)],
          [alias |-> PyStr("x"), type |-> PyStr("FULL"), on |-> OnPredicates],
          Table("b") @@ [sub_query |-> ValueSelect(PyStr("B"))],
          Table("n") @@ [type |-> PyNone],
          Table("n") @@ [on |-> PyNone],
          Table("n") @@ [type |-> PyStr("Inner"), on |-> PyNone],
          Table("j") @@ [alias |-> PyStr("x"), type |-> PyStr("RIGHT"),
                         on |-> PyList(<<Op("FOO")>>)]}

\* a FROM chain between a Value node before it and one after it
FromSpecs ==
    {[select |-> PyList(<<Val(PyStr("first"))>>), from |-> PyList(chain),
      where |-> PyList(<<Val(PyStr("last"))>>)] :
        chain \in SeqUpTo(FromItems, MaxChain)}

CombineItems ==
    {[sub_query |-> ValueSelect(PyInt("1"))] @@ ty @@ al :
        ty \in Opt("type", {PyStr("UNION"), PyStr("union"), PyStr("MINUS")}),
        al \in Opt("all", {PyTrue, PyFalse})}
    \cup {[type |-> PyStr("EXCEPT")]}

CombineSpecs ==
    {[combine |-> PyList(chain)] : chain \in SeqUpTo(CombineItems, MaxChain)}
    \cup {[combine |-> PyList(chain), order_by |-> PyList(<<Col("a")>>)] :
             chain \in SeqUpTo(CombineItems, MaxChain)}

\* rows of a VALUES clause: one cell, several cells, none, a cell that raises
ValuesRows ==
    {PyList(<<Val(PyStr("A"))>>),
     PyList(<<Val(PyInt("1")), Val(PyStr("B"))>>),
     PyList(<<Val(PyStr("C")), [default |-> PyTrue], Col("a"), Val(PyNone)>>),
     PyList(<<>>),
     PyList(<<Val(PyInt("2")), Op("FOO")>>)}

\* a VALUES clause between a Value node before it and one after it
ValuesSpecs ==
    {[with |-> PyList(<<[name |-> PyStr("cte"), sub_query |-> ValueSelect(PyStr("first"))]>>),
      insert |-> [table |-> PyStr("t")], values |-> PyList(rows),
      returning |-> PyList(<<Val(PyStr("last"))>>)] :
        rows \in SeqUpTo(ValuesRows, MaxChain)}

\* the `set` of an UPDATE: mappings of none, one and several entries in
\* either order, one with an entry that raises, and a list
UpdateSets ==
    {PyDict(<<>>),
     PyDict(<<Pair(PyStr("c"), Val(PyStr("new")))>>),
     PyDict(<<Pair(PyStr("c"), Val(PyInt("1"))), Pair(PyStr("d"), Val(PyInt("2")))>>),
     PyDict(<<Pair(PyStr("d"), Val(PyInt("2"))), Pair(PyStr("c"), Val(PyInt("1")))>>),
     PyDict(<<Pair(PyStr("c"), Val(PyInt("1"))), Pair(PyStr("d"), [default |-> PyTrue]),
              Pair(PyStr("e"), Eq(Col("a"), Val(PyInt("3"))))>>),
     PyDict(<<Pair(PyStr("c"), Val(PyInt("1"))), Pair(PyStr("d"), Op("FOO"))>>),
     PyList(<<Val(PyInt("1"))>>)}

UpdateSpecs ==
    {[update |-> tb @@ al @@ st, where |-> PyList(<<Eq(Col("k"), Val(PyStr("last")))>>)] :
        tb \in Opt("table", {PyStr("t")}), al \in Opt("alias", {PyStr("u")}),
        st \in Opt("set", UpdateSets)}

\* items of an ORDER BY: a direction absent, in either case, unknown, no
\* string; a NULLS modifier
OrderByItems ==
    {tg @@ dr @@ nl :
        tg \in {Col("a"), Val(PyInt("5"))},
        dr \in Opt("direction", {PyStr("asc"), PyStr("DESC"), PyStr("desc"),
                                 PyStr("sideways"), PyInt("1")}),
        nl \in Opt("nulls", {PyStr("FIRST"), PyStr("LAST")})}

OrderBySpecs ==
    {[select |-> PyList(<<Col("a")>>), order_by |-> PyList(<<item>>)] :
        item \in OrderByItems}
    \cup {[select |-> PyList(<<Col("a")>>),
           order_by |-> PyList(<<Val(PyStr("o")) @@ dr, Col("b")>>)] :
              dr \in Opt("direction", {PyStr("desc"), PyStr("sideways")})}

Specs ==
    PresenceSpecs \cup ExprSpecs \cup FromSpecs \cup CombineSpecs \cup ValuesSpecs
    \cup UpdateSpecs \cup OrderBySpecs

(***************************************************************************)
(* One call of build_statement(criteria), a step for each `if` block       *)
(***************************************************************************)
NotRaised == [exc |-> "", msg |-> "", at |-> ""]

NotReturned == [done |-> FALSE, statement |-> <<>>, values |-> <<>>]

\* no second thread
NoOther == [pc |-> "none"]

Init ==
    /\ criteria \in Specs
    /\ pc = "combine"
    /\ statement = <<SQL("")>>
    /\ values = <<>>
    /\ raised = NotRaised
    /\ returned = NotReturned
    /\ calls = <<>>
    /\ other = NoOther

\* the statement and the list as the next block finds them
Cur == Ok(statement, values)

\* a block of build_statement ran with outcome r: the locals are rebound, or
\* the exception leaves the call (the list keeps what was appended to it)
Step(here, next, r) ==
    /\ pc = here
    /\ IF r.ok
       THEN /\ pc' = next
            /\ statement' = r.statement
            /\ values' = r.values
            /\ raised' = raised
       ELSE /\ pc' = "raised"
            /\ statement' = statement
            /\ values' = r.values
            /\ raised' = [exc |-> r.exc, msg |-> r.msg, at |-> here]
    /\ UNCHANGED <<criteria, returned, calls, other>>

Combine == Step("combine", "with", step_combine(criteria, Cur))

With == Step("with", "verb", step_with(criteria, Cur))

Delete == Has(criteria, "delete") /\ Step("verb", "values", step_verb(criteria, Cur))

Insert ==
    /\ ~Has(criteria, "delete") /\ Has(criteria, "insert")
    /\ Step("verb", "values", step_verb(criteria, Cur))

Select ==
    /\ ~Has(criteria, "delete") /\ ~Has(criteria, "insert") /\ Has(criteria, "select")
    /\ Step("verb", "values", step_verb(criteria, Cur))

Update ==
    /\ ~Has(criteria, "delete") /\ ~Has(criteria, "insert") /\ ~Has(criteria, "select")
    /\ Has(criteria, "update")
    /\ Step("verb", "values", step_verb(criteria, Cur))

NoVerb ==
    /\ DOMAIN criteria \cap {"delete", "insert", "select", "update"} = {}
    /\ Step("verb", "values", step_verb(criteria, Cur))

Values == Step("values", "from", step_values(criteria, Cur))

From == Step("from", "where", step_from(criteria, Cur))

Where == Step("where", "group_by", step_where(criteria, Cur))

GroupBy == Step("group_by", "having", step_group_by(criteria, Cur))

Having == Step("having", "order_by", step_having(criteria, Cur))

OrderBy == Step("order_by", "limit", step_order_by(criteria, Cur))

Limit == Step("limit", "offset", step_limit(criteria, Cur))

Offset == Step("offset", "returning", step_offset(criteria, Cur))

Returning == Step("returning", "return", step_returning(criteria, Cur))

Return ==
    /\ pc = "return"
    /\ pc' = "done"
    /\ returned' = [done |-> TRUE, statement |-> statement, values |-> values]
    /\ UNCHANGED <<criteria, statement, values, raised, calls, other>>

Next ==
    \/ Combine \/ With \/ Delete \/ Insert \/ Select \/ Update \/ NoVerb
    \/ Values \/ From \/ Where \/ GroupBy \/ Having \/ OrderBy \/ Limit
    \/ Offset \/ Returning \/ Return

Spec == Init /\ [][Next]_vars

\* the run agrees with the call taken as a whole
Agrees(r) ==
    /\ pc = "done" => r.ok /\ r.statement = returned.statement
                            /\ r.values = returned.values
    /\ pc = "raised" => ~r.ok /\ r.exc = raised.exc /\ r.msg = raised.msg
                              /\ r.values = values

StepsAgree == Agrees(build_statement(criteria, <<>>))

(***************************************************************************)
(* build_statement(criteria) called again when the call before has ended   *)
(***************************************************************************)
MaxCalls == 2

\* what the caller has of a call that ended: the pair returned, or the
\* exception (the list of a call that raised is not handed to the caller)
Outcome ==
    [ok |-> pc = "done", statement |-> returned.statement, values |-> returned.values,
     exc |-> raised.exc, msg |-> raised.msg]

\* the next call taking the list the call before it appended to, as a
\* default `values=[]` evaluated once would give it
CallAgainOnSameList ==
    /\ pc \in {"done", "raised"}
    /\ Len(calls) + 1 < MaxCalls
    /\ calls' = Append(calls, Outcome)
    /\ pc' = "combine"
    /\ statement' = <<SQL("")>>
    /\ values' = values
    /\ raised' = NotRaised
    /\ returned' = NotReturned
    /\ UNCHANGED <<criteria, other>>

\* the caller keeps the outcome and calls build_statement(criteria) again:
\* values is None, so the call makes a new list, and statement is sql.SQL("")
CallAgain ==
    /\ pc \in {"done", "raised"}
    /\ Len(calls) + 1 < MaxCalls
    /\ calls' = Append(calls, Outcome)
    /\ pc' = "combine"
    /\ statement' = <<SQL("")>>
    /\ values' = <<>>
    /\ raised' = NotRaised
    /\ returned' = NotReturned
    /\ UNCHANGED <<criteria, other>>

NextTwice == Next \/ CallAgain

SpecTwice == Init /\ [][NextTwice]_vars

(***************************************************************************)
(* Two calls of build_statement in two threads, each on its own criteria.  *)
(* A thread may be switched out between any two blocks of its call; the    *)
(* statement and the list of a call are locals of that call.               *)
(***************************************************************************)
\* criteria for the two threads: every verb, none, and one that raises after
\* it has appended a value
PairSpecs ==
    {[delete |-> PyTrue, from |-> PyList(<<Table("t")>>),
      where |-> PyList(<<Eq(Col("a"), Val(PyInt("5")))>>)],
     [insert |-> [table |-> PyStr("t"), columns |-> PyList(<<PyStr("name")>>)],
      values |-> PyList(<<PyList(<<Val(PyStr("A"))>>), PyList(<<Val(PyStr("B"))>>)>>),
      returning |-> PyList(<<Col("*")>>)],
     [select |-> PyList(<<Val(PyInt("1"))>>), from |-> PyList(<<Table("t")>>),
      where |-> PyList(<<Eq(Col("a"), Val(PyStr("w")))>>), limit |-> Val(PyInt("100"))],
     [update |-> [table |-> PyStr("t"),
                  set |-> PyDict(<<Pair(PyStr("c"), Val(PyStr("new")))>>)],
      where |-> PyList(<<Eq(Col("a"), Val(PyInt("2")))>>)],
     [combine |-> PyList(<<[sub_query |-> ValueSelect(PyInt("7")), type |-> PyStr("union")],
                           [sub_query |-> ValueSelect(PyInt("8"))]>>),
      order_by |-> PyList(<<Col("a")>>)],
     [select |-> PyList(<<Val(PyInt("1")), Op("FOO")>>)]}

\* the `if` blocks of build_statement in the order of the source
Blocks ==
    <<"combine", "with", "verb", "values", "from", "where", "group_by", "having",
      "order_by", "limit", "offset", "returning">>

AfterBlock(block) ==
    IF block = "returning" THEN "return"
    ELSE Blocks[1 + CHOOSE i \in 1..Len(Blocks) : Blocks[i] = block]

step_block(block, c, r) ==
    CASE block = "combine" -> step_combine(c, r)
      [] block = "with" -> step_with(c, r)
      [] block = "verb" -> step_verb(c, r)
      [] block = "values" -> step_values(c, r)
      [] block = "from" -> step_from(c, r)
      [] block = "where" -> step_where(c, r)
      [] block = "group_by" -> step_group_by(c, r)
      [] block = "having" -> step_having(c, r)
      [] block = "order_by" -> step_order_by(c, r)
      [] block = "limit" -> step_limit(c, r)
      [] block = "offset" -> step_offset(c, r)
      [] block = "returning" -> step_returning(c, r)

\* the other thread enters build_statement(c)
StartOther(c) ==
    [criteria |-> c, pc |-> "combine", statement |-> <<SQL("")>>, values |-> <<>>,
     raised |-> NotRaised, returned |-> NotReturned]

InitPair ==
    /\ criteria \in PairSpecs
    /\ pc = "combine"
    /\ statement = <<SQL("")>>
    /\ values = <<>>
    /\ raised = NotRaised
    /\ returned = NotReturned
    /\ calls = <<>>
    /\ other \in {StartOther(c) : c \in PairSpecs}

\* the other thread's block finding the list of this thread's call, as it
\* would with one list shared by the module
OtherCurOnSharedList == Ok(other.statement, values)

\* the statement and the list as the other thread's next block finds them
OtherCur == Ok(other.statement, other.values)

\* a block of the other thread's call ran with outcome r
Advanced(b, r) ==
    IF r.ok
    THEN [b EXCEPT !.pc = AfterBlock(b.pc), !.statement = r.statement,
                   !.values = r.values]
    ELSE [b EXCEPT !.pc = "raised", !.values = r.values,
                   !.raised = [exc |-> r.exc, msg |-> r.msg, at |-> b.pc]]

OtherStep ==
    /\ other.pc \in {Blocks[i] : i \in 1..Len(Blocks)}
    /\ other' = Advanced(other, step_block(other.pc, other.criteria, OtherCur))
    /\ UNCHANGED <<criteria, pc, statement, values, raised, returned, calls>>

OtherReturn ==
    /\ other.pc = "return"
    /\ other' = [other EXCEPT !.pc = "done",
                              !.returned = [done |-> TRUE, statement |-> other.statement,
                                            values |-> other.values]]
    /\ UNCHANGED <<criteria, pc, statement, values, raised, returned, calls>>

NextPair == Next \/ OtherStep \/ OtherReturn

SpecPair == InitPair /\ [][NextPair]_vars

\* the other thread's call ended as the call run alone ends
OtherAgrees(r) ==
    /\ other.pc = "done" => r.ok /\ r.statement = other.returned.statement
                                  /\ r.values = other.returned.values
    /\ other.pc = "raised" => ~r.ok /\ r.exc = other.raised.exc
                                    /\ r.msg = other.raised.msg

(***************************************************************************)
(* What the specification says of a StatementSpec                          *)
(***************************************************************************)
Verbs == {"delete", "insert", "select", "update"}

\* the primary verb of a spec: the first one present
VerbOf(c) ==
    IF Has(c, "delete") THEN "delete"
    ELSE IF Has(c, "insert") THEN "insert"
    ELSE IF Has(c, "select") THEN "select"
    ELSE IF Has(c, "update") THEN "update"
    ELSE "none"

\* the operand fields of an Operator node, in the order they are written out
OperandKeys == <<"left", "operand", "characters", "expression", "expressions", "right">>

RECURSIVE ValuesOfExpr(_)
RECURSIVE ValuesOfList(_, _)
RECURSIVE ValuesOfKeys(_, _, _)
RECURSIVE ValuesOfPairs(_, _)
RECURSIVE ValuesOfFrom(_, _)
RECURSIVE ValuesOfSpec(_)

\* the payloads of the Value nodes of an expression, in pre-order
ValuesOfExpr(e) ==
    IF IsList(e) THEN ValuesOfList(e.items, 1)
    ELSE IF ~IsDict(e) THEN <<>>
    ELSE IF Has(e, "column") THEN <<>>
    ELSE IF Has(e, "function_name") THEN ValuesOfKeys(e, <<"args">>, 1)
    ELSE IF Has(e, "operator") THEN ValuesOfKeys(e, OperandKeys, 1)
    ELSE IF Has(e, "value") THEN <<e.value>>
    ELSE IF Has(e, "default") /\ Truthy(e.default) THEN <<>>
    ELSE IF Has(e, "sub_query") THEN ValuesOfSpec(e.sub_query)
    ELSE <<>>

ValuesOfList(items, index) ==
    IF index > Len(items) THEN <<>>
    ELSE ValuesOfExpr(items[index]) \o ValuesOfList(items, index + 1)

ValuesOfKeys(e, keys, index) ==
    IF index > Len(keys) THEN <<>>
    ELSE (IF Has(e, keys[index]) THEN ValuesOfExpr(e[keys[index]]) ELSE <<>>)
         \o ValuesOfKeys(e, keys, index + 1)

ValuesOfPairs(pairs, index) ==
    IF index > Len(pairs) THEN <<>>
    ELSE ValuesOfExpr(pairs[index].val) \o ValuesOfPairs(pairs, index + 1)

\* a FROM item: its relation, then its `on` predicates
ValuesOfFrom(items, index) ==
    IF index > Len(items) THEN <<>>
    ELSE ValuesOfExpr(items[index])
         \o (IF Has(items[index], "on") THEN ValuesOfExpr(items[index].on) ELSE <<>>)
         \o ValuesOfFrom(items, index + 1)

ValuesOfClause(c, key) == IF Has(c, key) THEN ValuesOfExpr(c[key]) ELSE <<>>

ValuesOfSpec(c) ==
    ValuesOfClause(c, "combine") \o ValuesOfClause(c, "with")
    \o (IF VerbOf(c) = "select" THEN ValuesOfExpr(c.select)
        ELSE IF VerbOf(c) = "update" /\ Has(c.update, "set") /\ IsOrderedDict(c.update.set)
        THEN ValuesOfPairs(c.update.set.items, 1)
        ELSE <<>>)
    \o ValuesOfClause(c, "values")
    \o (IF Has(c, "from") /\ IsList(c.from) THEN ValuesOfFrom(c.from.items, 1) ELSE <<>>)
    \o ValuesOfClause(c, "where") \o ValuesOfClause(c, "group_by")
    \o ValuesOfClause(c, "having") \o ValuesOfClause(c, "order_by")
    \o ValuesOfClause(c, "limit") \o ValuesOfClause(c, "offset")
    \o ValuesOfClause(c, "returning")

Placeholders(st) == Cardinality({i \in 1..Len(st) : st[i].k = "Placeholder"})

\* C1: for every spec build_statement accepts, the returned parameter list is
\* the sequence of the payloads of the spec's Value nodes in pre-order, join
\* `on` predicates included, and the command holds as many placeholders.
C1_ParametersArePreorderValues ==
    returned.done =>
        /\ returned.values = ValuesOfSpec(criteria)
        /\ Placeholders(returned.statement) = Len(returned.values)

\* the payload every Value node is given when payloads are erased
Canonical == PyStr("?")

RECURSIVE Erase(_)
\* the same spec with the payload of every Value node replaced
Erase(v) ==
    IF IsDict(v)
    THEN [key \in DOMAIN v |-> IF key = "value" THEN Canonical ELSE Erase(v[key])]
    ELSE IF IsList(v) THEN PyList([i \in 1..Len(v.items) |-> Erase(v.items[i])])
    ELSE IF IsOrderedDict(v)
    THEN PyDict([i \in 1..Len(v.items) |->
                    Pair(v.items[i].key, Erase(v.items[i].val))])
    ELSE v

\* the texts of the scalar payloads among the parameters
PayloadTexts(vs) == {vs[i].lit : i \in {j \in 1..Len(vs) : IsScalar(vs[j])}}

\* the call on the erased spec returned the command this call returned
SameCommand(erased) == erased.ok /\ erased.statement = returned.statement

\* C2: the command text does not depend on the payloads of Value nodes: the
\* spec with every payload replaced compiles to the same command, and no
\* token of the command other than a placeholder carries a payload.
C2_CommandIndependentOfPayloads ==
    returned.done =>
        /\ SameCommand(build_statement(Erase(criteria), <<>>))
        /\ \A i \in 1..Len(returned.statement) :
               \/ returned.statement[i].k = "Placeholder"
               \/ returned.statement[i].s \notin PayloadTexts(returned.values)

\* a command was returned for a spec with a quote-bearing string payload
C2_Witness ==
    /\ returned.done
    /\ Erase(criteria) # criteria
    /\ \E i \in 1..Len(returned.values) : returned.values[i] = PyStr("x' OR 1=1")

NameKeys == {"table", "alias", "correlation", "name", "schema_name", "column"}

RECURSIVE SpecNames(_)
\* every table, column, alias, correlation, CTE and schema name, column-list
\* entry and SET target written anywhere in a spec
SpecNames(v) ==
    IF IsDict(v)
    THEN UNION {IF key \in NameKeys
                THEN (IF IsStr(v[key]) THEN {v[key].lit} ELSE {})
                ELSE IF key = "value" THEN {}
                ELSE IF key = "columns" /\ IsList(v[key])
                THEN {v[key].items[i].lit :
                         i \in {j \in 1..Len(v[key].items) : IsStr(v[key].items[j])}}
                ELSE SpecNames(v[key]) : key \in DOMAIN v}
    ELSE IF IsList(v) THEN UNION {SpecNames(v.items[i]) : i \in 1..Len(v.items)}
    ELSE IF IsOrderedDict(v)
    THEN UNION {{v.items[i].key.lit} \cup SpecNames(v.items[i].val) :
                   i \in 1..Len(v.items)}
    ELSE {}

\* C3: in a returned command no name that comes from the spec is raw command
\* text, except the column `*`; the quoted identifiers are names of the spec.
C3_NamesAreQuotedIdentifiers ==
    returned.done =>
        \A i \in 1..Len(returned.statement) :
            LET token == returned.statement[i]
            IN /\ token.k = "SQL" => token.s \notin SpecNames(criteria) \ {"*"}
               /\ token.k = "Identifier" => token.s \in SpecNames(criteria) \ {"*"}
               /\ token = SQL("*") => "*" \in SpecNames(criteria)

\* a command with a correlation-qualified `*` and a quoted table was returned
C3_Witness ==
    /\ returned.done
    /\ \E i \in 1..Len(returned.statement) : returned.statement[i] = SQL("*")
    /\ \E i \in 1..Len(returned.statement) : returned.statement[i] = Identifier("t")
    /\ Has(criteria, "update") /\ VerbOf(criteria) = "update"

ClauseOrder ==
    <<"combine", "with", "verb", "values", "from", "where", "group_by", "having",
      "order_by", "limit", "offset", "returning", "return">>

Rank(position) == CHOOSE i \in 1..Len(ClauseOrder) : ClauseOrder[i] = position

\* the clause of a position is present in the spec
ClausePresent(position) ==
    IF position = "verb" THEN VerbOf(criteria) # "none" ELSE Has(criteria, position)

\* the keyword that opens a clause
ClauseKeyword(position) ==
    CASE position = "with" -> " WITH "
      [] position = "verb" ->
             (CASE VerbOf(criteria) = "delete" -> " DELETE "
                [] VerbOf(criteria) = "insert" -> " INSERT INTO "
                [] VerbOf(criteria) = "select" -> " SELECT "
                [] OTHER -> " UPDATE ")
      [] position = "values" -> " VALUES "
      [] position = "from" -> " FROM "
      [] position = "where" -> " WHERE "
      [] position = "group_by" -> " GROUP BY "
      [] position = "having" -> " HAVING "
      [] position = "order_by" -> " ORDER BY "
      [] position = "limit" -> " LIMIT "
      [] position = "offset" -> " OFFSET "
      [] position = "returning" -> " RETURNING "
      [] OTHER -> "("

IsPrefix(s, t) == Len(s) <= Len(t) /\ SubSeq(t, 1, Len(s)) = s

\* one block of build_statement, seen from the clause order
OrderedStep ==
    pc \in {ClauseOrder[i] : i \in 1..Len(ClauseOrder) - 1} =>
        /\ pc' # "raised" => Rank(pc') = Rank(pc) + 1
        /\ IsPrefix(statement, statement')
        /\ IF ClausePresent(pc)
           THEN pc' # "raised" /\ statement' # statement =>
                    statement'[Len(statement) + 1] = SQL(ClauseKeyword(pc))
           ELSE statement' = statement /\ values' = values /\ pc' # "raised"
        /\ ClausePresent(pc) /\ pc # "combine" /\ pc' # "raised" =>
               statement' # statement

\* C4: the clauses are written in the fixed order combine, with, verb, values,
\* from, where, group by, having, order by, limit, offset, returning, each
\* after what the earlier ones wrote and opened by its own keyword; a clause
\* whose key is absent adds no token and no parameter.
C4_ClauseOrder == [][OrderedStep]_vars

\* a command with a WITH clause, no FROM clause and a RETURNING clause
C4_Witness ==
    /\ returned.done
    /\ {"with", "returning"} \subseteq DOMAIN criteria
    /\ ~Has(criteria, "from")
    /\ Cardinality(DOMAIN criteria) = MaxClauses

\* models.py: InfixOperators, MixedOperators, PrefixOperators, VerboseOperators
SupportedOperators ==
    {"=", "!=", "<>", ">", "<", ">=", "<=", "*", "/", "%", "+", "-", "AND", "OR",
     "NOT", "BETWEEN", "CAST", "IN", "IS", "TRIM"}

\* a combine list breaks the chain rule
CombineViolation(items) ==
    \/ \E i \in 1..Len(items) - 1 :
           \/ ~Has(items[i], "type")
           \/ ~IsStr(items[i].type)
           \/ Upper(items[i].type.lit) \notin {"UNION", "INTERSECT", "EXCEPT"}
    \/ /\ items # <<>>
       /\ Has(items[Len(items)], "type") \/ Has(items[Len(items)], "all")

\* a FROM list breaks the join-chain rule
JoinViolation(items) ==
    \/ items # <<>> /\ (Has(items[1], "type") \/ Has(items[1], "on"))
    \/ \E i \in 2..Len(items) :
           \/ ~Has(items[i], "type")
           \/ ~IsStr(items[i].type)
           \/ Upper(items[i].type.lit) \notin {"INNER", "LEFT", "RIGHT", "FULL", "CROSS"}
           \/ Upper(items[i].type.lit) \in {"INNER", "LEFT", "RIGHT", "FULL"}
                  /\ ~Has(items[i], "on")
           \/ Upper(items[i].type.lit) = "CROSS" /\ Has(items[i], "on")

\* a CAST node gives both a length and a precision
CastGivesBoth(e) ==
    /\ Has(e, "length") /\ IsInt(e.length)
    /\ Has(e, "precision") /\ IsInt(e.precision)

RECURSIVE InvalidExpr(_)
RECURSIVE InvalidSpec(_)

\* an expression, or one nested in it at any depth, breaks a rule of the grammar
InvalidExpr(e) ==
    IF IsList(e) THEN \E i \in 1..Len(e.items) : InvalidExpr(e.items[i])
    ELSE IF ~IsDict(e) THEN TRUE
    ELSE IF Has(e, "column") THEN ~IsStr(e.column)
    ELSE IF Has(e, "function_name")
    THEN \/ ~IsStr(e.function_name)
         \/ Upper(e.function_name.lit) \notin FunctionNames_ep
         \/ Has(e, "args") /\ InvalidExpr(e.args)
    ELSE IF Has(e, "operator")
    THEN \/ ~IsStr(e.operator)
         \/ Upper(e.operator.lit) \notin SupportedOperators
         \/ Upper(e.operator.lit) = "CAST" /\ CastGivesBoth(e)
         \/ \E i \in 1..Len(OperandKeys) :
                /\ Has(e, OperandKeys[i])
                /\ IsDict(e[OperandKeys[i]]) \/ IsList(e[OperandKeys[i]])
                /\ InvalidExpr(e[OperandKeys[i]])
    ELSE IF Has(e, "value") THEN ~IsScalar(e.value)
    ELSE IF Has(e, "default") /\ Truthy(e.default) THEN FALSE
    ELSE IF Has(e, "sub_query") THEN InvalidSpec(e.sub_query)
    ELSE TRUE

\* a spec, or a sub-query nested in it at any depth, breaks a rule of the grammar
InvalidSpec(c) ==
    \/ Has(c, "combine") /\ CombineViolation(c.combine.items)
    \/ Has(c, "from") /\ JoinViolation(c.from.items)
    \/ Has(c, "from") /\ \E i \in 1..Len(c.from.items) :
           Has(c.from.items[i], "on") /\ InvalidExpr(c.from.items[i].on)
    \/ \E key \in DOMAIN c \cap
                 ({"combine", "with", "values", "where", "group_by", "having",
                   "limit", "offset", "returning"}
                  \cup (IF VerbOf(c) = "select" THEN {"select"} ELSE {})) :
           InvalidExpr(c[key])

\* C5: build_statement is atomic: it returns a whole (command, parameters)
\* pair or raises and returns nothing; whenever a clause or an expression
\* nested at any depth is invalid the call raises and returns no command.
C5_Atomic ==
    /\ pc = "done" => returned.done /\ raised = NotRaised /\ ~InvalidSpec(criteria)
    /\ pc # "done" => returned = NotReturned
    /\ pc = "raised" => raised.exc # ""

\* C6: a combine list fails when an item before the last has no `type` or one
\* outside UNION/INTERSECT/EXCEPT (in any case of letters) and when the last
\* item has `type` or `all`; a list of compilable items with none of that is
\* accepted: `type` on the second of two only is rejected, on the first only
\* accepted.
C6_CombineChain ==
    Has(criteria, "combine") /\ pc # "combine" =>
        LET items == criteria.combine.items
            compilable == \A i \in 1..Len(items) : Has(items[i], "sub_query")
        IN /\ CombineViolation(items) => pc = "raised" /\ raised.at = "combine"
           /\ ~CombineViolation(items) /\ compilable => raised.at # "combine"
           /\ Len(items) = 2 /\ compilable =>
                  /\ ~Has(items[1], "type") /\ Has(items[2], "type") => pc = "raised"
                  /\ (/\ Has(items[1], "type") /\ ~Has(items[2], "type")
                      /\ ~Has(items[2], "all")
                      /\ Upper(items[1].type.lit) \in {"UNION", "INTERSECT", "EXCEPT"})
                         => raised.at # "combine"

\* a two-item list with `type` on the second item only was rejected
C6_Witness ==
    /\ pc = "raised" /\ raised.at = "combine"
    /\ Len(criteria.combine.items) = 2
    /\ \A i \in 1..2 : Has(criteria.combine.items[i], "sub_query")
    /\ ~Has(criteria.combine.items[1], "type")
    /\ Has(criteria.combine.items[2], "type")

\* C7: a FROM list fails if its first item has `type` or `on`, if a later item
\* has no `type` or one outside INNER/LEFT/RIGHT/FULL/CROSS, if an
\* INNER/LEFT/RIGHT/FULL item has no `on`, or if a CROSS item has `on`.
C7_JoinChain ==
    Has(criteria, "from") /\ Rank(IF pc \in {"raised", "done"} THEN "return" ELSE pc)
                               > Rank("from") =>
        (JoinViolation(criteria.from.items) => pc = "raised" /\ raised.at = "from")

\* the statement and the parameters as the FROM block of the call finds them
BeforeFrom ==
    step_values(criteria, step_verb(criteria, step_with(criteria,
        step_combine(criteria, Ok(<<SQL("")>>, <<>>)))))

\* ` ON ` and the predicates of the item joined by ` AND `
JoinOn(item, r) ==
    IF r.ok /\ Has(item, "on")
    THEN ep_parse_expression(item.on, Emit(r, <<SQL(" ON ")>>), <<SQL(" AND ")>>, NoParser)
    ELSE r

RECURSIVE JoinEmission(_, _, _)
\* the FROM items written as the join grammar has them: the relation, then
\* ` ON ` and the predicates joined by ` AND ` when the item has `on`
JoinEmission(items, index, r) ==
    IF ~r.ok \/ index > Len(items) THEN r
    ELSE JoinEmission(
             items, index + 1,
             JoinOn(items[index],
                    qb_parse_from_item(
                        items[index],
                        IF index = 1 THEN r
                        ELSE Emit(r, <<SQL(" " \o Upper(items[index].type.lit)
                                               \o " JOIN ")>>))))

\* the FROM block left the statement and the parameters as `expected` has them
EmittedAs(expected) ==
    expected.ok /\ statement = expected.statement /\ values = expected.values

\* C8: an accepted FROM list is written as the first relation, then for each
\* later item `<TYPE> JOIN <relation> [AS alias]` and, when the item has `on`,
\* ` ON ` and its predicates joined by ` AND `, every Value node in them
\* adding a placeholder and a parameter at that place.
C8_JoinEmission ==
    Has(criteria, "from") /\ pc = "where" =>
        EmittedAs(JoinEmission(criteria.from.items, 1,
                               Emit(BeforeFrom, <<SQL(" FROM ")>>)))

\* the spec selects one CAST node of a known type
OneCast ==
    /\ DOMAIN criteria = {"select"} /\ Len(criteria.select.items) = 1
    /\ IsDict(criteria.select.items[1])
    /\ {"operator", "expression", "type"} \subseteq DOMAIN criteria.select.items[1]
    /\ "interval" \notin DOMAIN criteria.select.items[1]
    /\ IsStr(criteria.select.items[1].operator)
    /\ Upper(criteria.select.items[1].operator.lit) = "CAST"
    /\ IsStr(criteria.select.items[1].type)
    /\ Upper(criteria.select.items[1].type.lit) \in DataTypes_ep
    /\ ~InvalidExpr(criteria.select.items[1].expression)

\* C9: a CAST node with both `length` and `precision`, whatever the two
\* integers are, 0 included, raises and writes no CAST; with one of them it
\* compiles.
C9_CastLengthOrPrecision ==
    OneCast /\ pc \notin {"combine", "with", "verb"} =>
        LET node == criteria.select.items[1]
        IN IF CastGivesBoth(node) THEN pc = "raised" ELSE pc # "raised"

\* the spec selects one Operator node
OneOperator ==
    /\ DOMAIN criteria = {"select"} /\ Len(criteria.select.items) = 1
    /\ IsDict(criteria.select.items[1])
    /\ DOMAIN criteria.select.items[1] \cap {"column", "function_name"} = {}
    /\ Has(criteria.select.items[1], "operator")
    /\ IsStr(criteria.select.items[1].operator)

\* C10: an Operator node whose upper-cased token is not a supported operator
\* fails with the unsupported-operator error whatever its other fields are,
\* and a supported token is never rejected as unsupported.
C10_UnsupportedOperator ==
    OneOperator /\ pc \notin {"combine", "with", "verb"} =>
        LET unsupported == pc = "raised" /\ raised.msg = "Unsupported operator"
        IN IF Upper(criteria.select.items[1].operator.lit) \in SupportedOperators
           THEN ~unsupported ELSE unsupported

\* C11: build_statement called again on the same spec, no list passed,
\* returns the command and the parameters every earlier call returned (or
\* raises as it raised): nothing of an earlier call is left in the list.
C11_SameOutcomeOnEveryCall ==
    pc \in {"done", "raised"} => \A i \in 1..Len(calls) : calls[i] = Outcome

\* a second call returned a command with parameters
C11_Witness == pc = "done" /\ Len(calls) >= 1 /\ returned.values # <<>>

\* C12: two calls on independent specs whose blocks interleave in any order
\* each return the command and the parameters they return when run alone
\* (or raise as they raise alone).
C12_InterleavedAsAlone ==
    /\ Agrees(build_statement(criteria, <<>>))
    /\ other.pc \in {"done", "raised"} =>
           OtherAgrees(build_statement(other.criteria, <<>>))

\* both threads returned, each a command with parameters of its own
C12_Witness ==
    /\ pc = "done" /\ other.pc = "done"
    /\ returned.values # <<>> /\ other.returned.values # <<>>
    /\ returned.values # other.returned.values

\* the statement and the parameters as the VALUES block of the call finds them
BeforeValues ==
    step_verb(criteria, step_with(criteria, step_combine(criteria, Ok(<<SQL("")>>, <<>>))))

RECURSIVE CellsEmission(_, _, _)
\* the cells of a row from `index` on, each compiled, a comma between two
CellsEmission(cells, index, r) ==
    IF ~r.ok \/ index > Len(cells) THEN r
    ELSE CellsEmission(cells, index + 1,
                       ep_parse_expression(cells[index],
                                           IF index > 1 THEN Emit(r, <<SQL(", ")>>) ELSE r,
                                           NoJoiner, NoParser))

RECURSIVE RowsEmission(_, _, _)
\* the rows from `index` on, each in one pair of parentheses, a comma between two
RowsEmission(rows, index, r) ==
    IF ~r.ok \/ index > Len(rows) THEN r
    ELSE RowsEmission(
             rows, index + 1,
             Emit(CellsEmission(rows[index].items, 1,
                                Emit(r, IF index > 1 THEN <<SQL(", "), SQL("(")>>
                                        ELSE <<SQL("(")>>)),
                  <<SQL(")")>>))

\* the VALUES block left the statement as `expected` has it, and added the
\* payloads of the rows' Value nodes, row by row
ValuesEmittedAs(before, expected) ==
    /\ expected.ok /\ statement = expected.statement
    /\ values = before.values \o ValuesOfList(criteria.values.items, 1)

\* C13: a `values` clause of k rows is written as ` VALUES `, then the rows
\* in order with `, ` between two, each row in one pair of parentheses with
\* its cells compiled in order and comma-joined; the parameters added are the
\* payloads of the rows' Value nodes in row-major order.
C13_ValuesEmission ==
    /\ Has(criteria, "values") /\ pc = "from"
    /\ \A i \in 1..Len(criteria.values.items) : IsList(criteria.values.items[i])
    => ValuesEmittedAs(BeforeValues,
                       RowsEmission(criteria.values.items, 1,
                                    Emit(BeforeValues, <<SQL(" VALUES ")>>)))

\* two rows were written, one of them of several cells
C13_Witness ==
    /\ Has(criteria, "values") /\ pc = "from"
    /\ Len(criteria.values.items) = 2
    /\ \A i \in 1..2 : IsList(criteria.values.items[i])
    /\ \E i \in 1..2 : Len(criteria.values.items[i].items) > 2
    /\ Len(values) > Len(BeforeValues.values) + 2

\* the clauses whose items may be SubQuery nodes: combine items, WITH items,
\* FROM relations and expressions
SubQueryClauses == {"combine", "with", "from", "select", "where", "returning"}

\* a node that is a SubQuery node and nothing else
IsSubQueryNode(n) ==
    /\ IsDict(n) /\ Has(n, "sub_query") /\ IsDict(n.sub_query)
    /\ DOMAIN n \cap {"column", "function_name", "operator", "value", "default"} = {}

\* the SubQuery nodes among the items of the clauses `keys`
SubQueryNodesIn(c, keys) ==
    UNION {{c[key].items[i] : i \in {j \in 1..Len(c[key].items) :
                                        IsSubQueryNode(c[key].items[j])}} :
           key \in {k \in keys \cap DOMAIN c : IsList(c[k])}}

SubQueryNodes(c) == SubQueryNodesIn(c, SubQueryClauses)

\* the SubQuery nodes of the clause the call raised in
SubQueryNodesWhereRaised ==
    SubQueryNodesIn(criteria, IF raised.at = "verb" THEN {"select"} ELSE {raised.at})

\* the command `sub` sits in `st` from position i on, in one pair of
\* parentheses, and its parameters are in `vs` as one block that starts
\* after one parameter for each placeholder written before position i
NestedAt(st, vs, sub, i) ==
    /\ i > 1 /\ i + Len(sub.statement) + 1 <= Len(st)
    /\ SubSeq(st, i, i + Len(sub.statement) + 1)
           = <<SQL("(")>> \o sub.statement \o <<SQL(")")>>
    /\ st[i - 1] # SQL("(")
    /\ Placeholders(SubSeq(st, 1, i - 1)) + Len(sub.values) <= Len(vs)
    /\ SubSeq(vs, Placeholders(SubSeq(st, 1, i - 1)) + 1,
              Placeholders(SubSeq(st, 1, i - 1)) + Len(sub.values)) = sub.values

\* `sub` is what build_statement returns for the nested spec called alone
Nested(sub) ==
    /\ returned.done =>
           /\ sub.ok
           /\ \E i \in 1..Len(returned.statement) :
                  NestedAt(returned.statement, returned.values, sub, i)
    /\ ~sub.ok => pc \notin {"return", "done"}

\* what parse_combine and parse_from say of a chain they reject (`upper` for
\* a `type` that is no string), and what parse_expression says of an item
\* that is no node at all
ChainMessages ==
    {"Intermediate combine items must have 'type'", "Invalid combine type",
     "Last combine item cannot have 'type' or 'all'", "JOIN items must have 'type'",
     "Invalid join type", "Invalid FROM item", "Invalid expression", "upper"}

\* the nested spec of node n, called alone, raises what the call raised
RaisedIn(sub) == ~sub.ok /\ sub.exc = raised.exc /\ sub.msg = raised.msg

\* C14: a SubQuery node (an expression, a FROM relation, a WITH item or a
\* combine item) is compiled by build_statement on the nested spec: the
\* nested command is in the command in one pair of parentheses, the nested
\* parameters are one block after the parameters written before it, and a
\* clause with SubQuery nodes raises only what a nested spec raises or what
\* the chain or a sibling of the node is rejected for.
C14_SubQueryNesting ==
    /\ \A n \in SubQueryNodes(criteria) : Nested(build_statement(n.sub_query, <<>>))
    /\ pc = "raised" /\ SubQueryNodesWhereRaised # {} =>
           \/ raised.msg \in ChainMessages
           \/ \E n \in SubQueryNodesWhereRaised :
                  RaisedIn(build_statement(n.sub_query, <<>>))

\* a sub-query that holds a sub-query was compiled between two Value nodes
C14_Witness ==
    /\ returned.done /\ Has(criteria, "where")
    /\ \E n \in SubQueryNodes(criteria) :
           /\ n \in {criteria.where.items[i] : i \in 1..Len(criteria.where.items)}
           /\ SubQueryNodes(n.sub_query) # {}
    /\ Len(returned.values) >= 5

\* a step leaves what was written before it where it was
AppendOnlyStep == IsPrefix(statement, statement') /\ IsPrefix(values, values')

\* C15: the statement and the list of parameters only grow at the end: after
\* every step of a call each has its value before the step as a prefix.
C15_AppendOnly == [][AppendOnlyStep]_vars

\* the WHERE block added to a statement and to a list that were not empty
C15_Witness ==
    /\ pc = "group_by" /\ Has(criteria, "where")
    /\ Len(BeforeFrom.statement) > 1 /\ BeforeFrom.values # <<>>
    /\ Len(values) > Len(BeforeFrom.values)

\* the expressions a call compiles as items of its SELECT and WHERE lists
CompiledNodes(c) ==
    UNION {{c[key].items[i] : i \in 1..Len(c[key].items)} :
           key \in {k \in {"select", "where"} \cap DOMAIN c : IsList(c[k])}}

\* a mapping with its keys spelled as models.py spells them
SpelledAsModels(e) ==
    [key \in (DOMAIN e \ {"function_name", "sub_query"})
              \cup (IF Has(e, "function_name") THEN {"function name"} ELSE {})
              \cup (IF Has(e, "sub_query") THEN {"sub query"} ELSE {}) |->
        IF key = "function name" THEN e.function_name
        ELSE IF key = "sub query" THEN e.sub_query
        ELSE e[key]]

\* the variant of a mapping by the precedence column, default, function,
\* operator, sub_query, value
VariantByPrecedence(e) ==
    IF Has(e, "column") THEN "column"
    ELSE IF Has(e, "default") THEN "default"
    ELSE IF Has(e, "function_name") THEN "function"
    ELSE IF Has(e, "operator") THEN "operator"
    ELSE IF Has(e, "sub_query") THEN "sub query"
    ELSE IF Has(e, "value") THEN "value"
    ELSE "invalid"

\* C16: a mapping with more than one discriminating key is classified as
\* the first of column, default, function, operator, sub_query, value that
\* it carries, and parse_expression compiles it as that variant; a mapping
\* with none of the keys is rejected as an invalid expression.
C16_ClassifyPrecedence ==
    \A e \in CompiledNodes(criteria) :
        IsDict(e) /\ pc \in {"done", "raised"} =>
            /\ get_expression_type(SpelledAsModels(e))
                   = (IF VariantByPrecedence(e) = "invalid" THEN "raise"
                      ELSE VariantByPrecedence(e))
            /\ ep_dispatch(e) = VariantByPrecedence(e)

\* the spec selects one IN node that has both operands
OneIn ==
    /\ OneOperator
    /\ Upper(criteria.select.items[1].operator.lit) = "IN"
    /\ {"left", "right"} \subseteq DOMAIN criteria.select.items[1]

\* the left operand, ` IN (`, the members comma-joined, `)`
InEmission(node, r) ==
    Emit(CellsEmission(node.right.items, 1,
                       Emit(ep_parse_expression(node.left, r, NoJoiner, NoParser),
                            <<SQL(" IN (")>>)),
         <<SQL(")")>>)

\* the SELECT block ended as `expected` ends
SelectedAs(expected) ==
    IF expected.ok
    THEN pc # "raised" /\ statement = expected.statement /\ values = expected.values
    ELSE pc = "raised" /\ raised.msg = expected.msg /\ values = expected.values

\* C17: an IN node whose `right` is a list is written as the left operand,
\* ` IN `, and the members compiled in order and comma-joined in one pair of
\* parentheses; with a `right` that is no list (one mapping, a scalar) the
\* call raises and nothing of the node is written or appended.
C17_InOperator ==
    OneIn /\ pc \notin {"combine", "with", "verb"} =>
        IF IsList(criteria.select.items[1].right)
        THEN SelectedAs(InEmission(criteria.select.items[1],
                                   Ok(<<SQL(""), SQL(" SELECT ")>>, <<>>)))
        ELSE /\ pc = "raised" /\ raised.exc = "ValueError"
             /\ raised.msg = "IN operator 'right' argument must be a list"
             /\ statement = <<SQL("")>> /\ values = <<>>

\* an IN node with a list of two members was compiled
C17_Witness ==
    /\ OneIn /\ pc = "done"
    /\ IsList(criteria.select.items[1].right)
    /\ Len(criteria.select.items[1].right.items) = 2
    /\ Len(returned.values) >= 2

\* the spec selects one IS node
OneIs == OneOperator /\ Upper(criteria.select.items[1].operator.lit) = "IS"

\* the word written for the right-hand side of IS, "" for one that is refused
IsWord(node) ==
    IF ~Has(node, "right") THEN "UNKNOWN"
    ELSE IF IsBool(node.right) THEN (IF Truthy(node.right) THEN "TRUE" ELSE "FALSE")
    ELSE IF IsNone(node.right) THEN "NULL"
    ELSE ""

\* the left operand and ` IS <word>`
IsEmission(node, r) ==
    Emit(ep_parse_expression(node.left, r, NoJoiner, NoParser),
         <<SQL(" IS " \o IsWord(node))>>)

\* C18: an IS node is written as the left operand and ` IS TRUE`, ` IS FALSE`,
\* ` IS NULL` or ` IS UNKNOWN` for a `right` that is true, false, null or
\* absent, with no parameter for the right-hand side; any other `right`, or
\* no `left`, raises.
C18_IsOperator ==
    OneIs /\ pc \notin {"combine", "with", "verb"} =>
        IF Has(criteria.select.items[1], "left") /\ IsWord(criteria.select.items[1]) # ""
        THEN SelectedAs(IsEmission(criteria.select.items[1],
                                   Ok(<<SQL(""), SQL(" SELECT ")>>, <<>>)))
        ELSE pc = "raised" /\ raised.msg # "Unsupported operator"

\* the spec selects one `+` or `-` node
OneMixed == OneOperator /\ Upper(criteria.select.items[1].operator.lit) \in {"+", "-"}

\* the symbol of the node as it is written
MixedSymbol(node) == SQL(" " \o Upper(node.operator.lit) \o " ")

\* the operands of the infix shape: `left` and `right`, or `expressions`
InfixOperands(node) ==
    IF Has(node, "left") /\ Has(node, "right") THEN <<node.left, node.right>>
    ELSE node.expressions.items

RECURSIVE InfixEmission(_, _, _, _)
\* the operands from `index` on, the symbol between two
InfixEmission(operands, index, symbol, r) ==
    IF ~r.ok \/ index > Len(operands) THEN r
    ELSE InfixEmission(operands, index + 1, symbol,
                       ep_parse_expression(operands[index],
                                           IF index > 1 THEN Emit(r, <<symbol>>) ELSE r,
                                           NoJoiner, NoParser))

\* the symbol, then the one operand: `operand`, or `left` when there is none
PrefixEmission(node, r) ==
    ep_parse_expression(IF Has(node, "operand") THEN node.operand ELSE node.left,
                        Emit(r, <<MixedSymbol(node)>>), NoJoiner, NoParser)

\* C19: a `+` or `-` node with `left` and `right`, or with `expressions`, is
\* written as infix; with `operand` alone or `left` alone it is written as
\* prefix, the symbol and then the operand; with none of `operand`, `left`,
\* `right`, `expressions` it fails with the ValueError every other missing
\* field fails with.
C19_MixedOperator ==
    OneMixed /\ pc \notin {"combine", "with", "verb"} =>
        LET node == criteria.select.items[1]
        IN CASE (Has(node, "left") /\ Has(node, "right"))
                    \/ (Has(node, "expressions") /\ IsList(node.expressions)) ->
                    SelectedAs(InfixEmission(InfixOperands(node), 1, MixedSymbol(node),
                                             Ok(<<SQL(""), SQL(" SELECT ")>>, <<>>)))
             [] DOMAIN node \cap {"operand", "left", "right", "expressions"}
                    \in {{"operand"}, {"left"}}
                    /\ ~IsNone(IF Has(node, "operand") THEN node.operand ELSE node.left) ->
                    SelectedAs(PrefixEmission(node, Ok(<<SQL(""), SQL(" SELECT ")>>, <<>>)))
             [] DOMAIN node \cap {"operand", "left", "right", "expressions"} = {} ->
                    pc = "raised" /\ raised.exc = "ValueError"
             [] OTHER -> TRUE

\* the spec selects one Value node
OneValue ==
    /\ DOMAIN criteria = {"select"} /\ Len(criteria.select.items) = 1
    /\ IsDict(criteria.select.items[1])
    /\ DOMAIN criteria.select.items[1] = {"value"}

\* the types a payload may have
PayloadTypes == {"NoneType", "bool", "int", "float", "str"}

\* C20: a Value node whose payload is null, a boolean, an integer, a float
\* or a string adds one placeholder and the payload itself, of the type it
\* had, to the parameters; a payload of any other type makes the call raise
\* with nothing appended.
C20_ValuePreserved ==
    OneValue /\ pc \notin {"combine", "with", "verb"} =>
        IF IsScalar(criteria.select.items[1].value)
              /\ criteria.select.items[1].value.py \in PayloadTypes
        THEN /\ pc # "raised"
             /\ statement = <<SQL(""), SQL(" SELECT "), Placeholder>>
             /\ values = <<criteria.select.items[1].value>>
        ELSE /\ pc = "raised" /\ raised.msg = "Unsupported value type"
             /\ values = <<>>

\* the boolean true was bound
C20_Witness == OneValue /\ pc = "done" /\ returned.values = <<PyTrue>>

\* the spec selects one function call whose name is a string
OneFunction ==
    /\ DOMAIN criteria = {"select"} /\ Len(criteria.select.items) = 1
    /\ IsDict(criteria.select.items[1])
    /\ ~Has(criteria.select.items[1], "column")
    /\ Has(criteria.select.items[1], "function_name")
    /\ IsStr(criteria.select.items[1].function_name)

\* the quoted schema and a dot when there is one, the upper-cased name, `(`
FunctionHead(node, r) ==
    Emit(IF Has(node, "schema_name")
         THEN Emit(EmitIdentifier(r, node.schema_name), <<SQL(".")>>)
         ELSE r,
         <<SQL(Upper(node.function_name.lit)), SQL("(")>>)

\* the head, the arguments comma-joined, `)`
FunctionEmission(node, r) ==
    Emit(IF ~Has(node, "args") THEN FunctionHead(node, r)
         ELSE IF IsList(node.args)
         THEN CellsEmission(node.args.items, 1, FunctionHead(node, r))
         ELSE ep_parse_expression(node.args, FunctionHead(node, r), NoJoiner, NoParser),
         <<SQL(")")>>)

\* C21: a function call whose upper-cased name is MAX, TRIM or UPPER is
\* written as the quoted schema and a dot when it has one, the upper-cased
\* name, and its arguments compiled in order and comma-joined in one pair of
\* parentheses, `()` without arguments; any other name fails with the
\* unsupported-function error, in whatever case the name is written.
C21_FunctionCompile ==
    OneFunction /\ pc \notin {"combine", "with", "verb"} =>
        IF Upper(criteria.select.items[1].function_name.lit) \in {"MAX", "TRIM", "UPPER"}
        THEN SelectedAs(FunctionEmission(criteria.select.items[1],
                                         Ok(<<SQL(""), SQL(" SELECT ")>>, <<>>)))
        ELSE pc = "raised" /\ raised.msg = "Unsupported function"

\* a FROM item carries exactly one of `table` and `sub_query`
ExactlyOneSource(item) == Has(item, "table") # Has(item, "sub_query")

\* C22: a spec whose `from` list holds an item with neither `table` nor
\* `sub_query`, or with both of them, is rejected: build_statement returns no
\* command for it.
C22_FromItemExactlyOne ==
    /\ Has(criteria, "from")
    /\ \E i \in 1..Len(criteria.from.items) : ~ExactlyOneSource(criteria.from.items[i])
    => pc # "done"

(***************************************************************************)
(* The join rule as src/src/clauses.py and src/src/models.py check it      *)
(***************************************************************************)

\* the checks parse_from_item of clauses.py makes on the item at `index`
\* (0-based) before it writes it: some check raises
cl_parse_from_item_raises(index, item) ==
    IF index = 0 THEN Has(item, "type") \/ Has(item, "on")
    ELSE \/ ~Has(item, "type")
         \/ ~IsStr(item.type)
         \/ Upper(item.type.lit) \notin JoinTypes
         \/ Upper(item.type.lit) \in {"INNER", "LEFT", "RIGHT", "FULL"} /\ ~Has(item, "on")
         \/ Upper(item.type.lit) = "CROSS" /\ Has(item, "on")

\* FromItem.normalize_values: `value.upper() if value else None`
FromItem_normalize_values(item) ==
    IF Has(item, "type") /\ Truthy(item.type) /\ IsStr(item.type)
    THEN Upper(item.type.lit) ELSE "None"

\* the field `on` of the FromItem model is None
FromItem_on_is_None(item) == ~Has(item, "on") \/ IsNone(item.on)

\* the loop of Criteria.check_values over `from`, and the Literal of the
\* field `type`, for the item at `index` (0-based): some check raises
Criteria_check_values_raises(index, item) ==
    \/ FromItem_normalize_values(item) \notin JoinTypes \cup {"None"}
    \/ IF index = 0
       THEN FromItem_normalize_values(item) # "None" \/ ~FromItem_on_is_None(item)
       ELSE \/ FromItem_normalize_values(item) = "None"
            \/ FromItem_normalize_values(item) = "CROSS" /\ ~FromItem_on_is_None(item)
            \/ FromItem_normalize_values(item) # "CROSS" /\ FromItem_on_is_None(item)

\* C23: for every `from` list the checks parse_from_item makes item by item
\* reject the list if and only if the loop of Criteria.check_values rejects
\* it, `type` and `on` given as null and `type` in lower or mixed case
\* included.
C23_JoinChecksAgree ==
    Has(criteria, "from") /\ pc = "from" =>
        ((\E i \in 1..Len(criteria.from.items) :
              cl_parse_from_item_raises(i - 1, criteria.from.items[i]))
         <=> (\E i \in 1..Len(criteria.from.items) :
                  Criteria_check_values_raises(i - 1, criteria.from.items[i])))

\* what follows the sub-query of a combine item that is not the last: the
\* upper-cased keyword, then ALL or DISTINCT
CombineKeyword(item) ==
    <<SQL(" " \o Upper(item.type.lit) \o " "),
      IF Has(item, "all") /\ item.all = PyTrue THEN SQL("ALL ") ELSE SQL("DISTINCT ")>>

RECURSIVE CombineEmission(_, _, _)
\* the items from `index` on: each sub-query compiled, its keyword after it
\* unless it is the last
CombineEmission(items, index, r) ==
    IF ~r.ok \/ index > Len(items) THEN r
    ELSE CombineEmission(
             items, index + 1,
             Emit(ep_parse_expression(items[index], r, NoJoiner, NoParser),
                  IF index < Len(items) THEN CombineKeyword(items[index]) ELSE <<>>))

\* C24: an accepted combine list of k items is written as the k compiled
\* sub-queries in list order, each but the last followed by its upper-cased
\* keyword and then ALL when its `all` is true and DISTINCT otherwise;
\* nothing follows the last sub-query.
C24_CombineEmission ==
    Has(criteria, "combine") /\ pc = "with" =>
        EmittedAs(CombineEmission(criteria.combine.items, 1, Ok(<<SQL("")>>, <<>>)))

\* a list of two was written with ALL after a keyword given in lower case
C24_Witness ==
    /\ Has(criteria, "combine") /\ pc = "with"
    /\ Len(criteria.combine.items) = 2
    /\ criteria.combine.items[1].type = PyStr("union")
    /\ \E i \in 1..Len(statement) :
           i < Len(statement) /\ statement[i] = SQL(" UNION ") /\ statement[i + 1] = SQL("ALL ")
    /\ statement[Len(statement)] = SQL(")")

\* the spec selects one node of an infix operator or of AND or OR
OneInfix ==
    /\ OneOperator
    /\ Upper(criteria.select.items[1].operator.lit) \in InfixTokens_ep \cup {"AND", "OR"}

\* the joined operands, in one pair of parentheses for AND and OR
JoinedEmission(node, operands, r) ==
    IF Upper(node.operator.lit) \in {"AND", "OR"}
    THEN Emit(InfixEmission(operands, 1, MixedSymbol(node), Emit(r, <<SQL("(")>>)),
              <<SQL(")")>>)
    ELSE InfixEmission(operands, 1, MixedSymbol(node), r)

\* C25: an infix node with `left` and `right` is written as the left operand,
\* the symbol, the right operand, the parameters in that order; a node with a
\* list `expressions` of k elements is written as the k elements with the
\* symbol between two neighbours; AND and OR put the joined elements in one
\* pair of parentheses; a node with neither `expressions` nor both `left` and
\* `right` raises.
C25_InfixCompile ==
    OneInfix /\ pc \notin {"combine", "with", "verb"} =>
        LET node == criteria.select.items[1]
        IN CASE Has(node, "expressions") /\ IsList(node.expressions) ->
                    SelectedAs(JoinedEmission(node, node.expressions.items,
                                              Ok(<<SQL(""), SQL(" SELECT ")>>, <<>>)))
             [] ~Has(node, "expressions") /\ Has(node, "left") /\ Has(node, "right")
                    /\ Upper(node.operator.lit) \in InfixTokens_ep ->
                    SelectedAs(InfixEmission(<<node.left, node.right>>, 1, MixedSymbol(node),
                                             Ok(<<SQL(""), SQL(" SELECT ")>>, <<>>)))
             [] ~Has(node, "expressions") /\ ~(Has(node, "left") /\ Has(node, "right")) ->
                    pc = "raised" /\ raised.exc = "ValueError"
             [] OTHER -> TRUE

\* the statement and the parameters as the verb block of the call finds them
BeforeVerb == step_with(criteria, step_combine(criteria, Ok(<<SQL("")>>, <<>>)))

RECURSIVE Assignments(_, _, _)
\* the entries of `set` from `index` on: the quoted column, ` = `, the
\* compiled expression, a comma between two entries
Assignments(pairs, index, r) ==
    IF ~r.ok \/ index > Len(pairs) THEN r
    ELSE Assignments(
             pairs, index + 1,
             ep_parse_expression(
                 pairs[index].val,
                 Emit(IF index > 1 THEN Emit(r, <<SQL(", ")>>) ELSE r,
                      <<Identifier(pairs[index].key.lit), SQL(" = ")>>),
                 NoJoiner, NoParser))

\* ` UPDATE `, the quoted table, ` AS ` and the quoted alias when there is
\* one, ` SET `, the assignments
UpdateEmission(item, r) ==
    Assignments(item.set.items, 1,
                Emit(r, <<SQL(" UPDATE "), Identifier(item.table.lit)>>
                        \o (IF Has(item, "alias")
                            THEN <<SQL(" AS "), Identifier(item.alias.lit)>> ELSE <<>>)
                        \o <<SQL(" SET ")>>))

\* the verb block left the statement and the parameters as `expected` has
\* them, or raised as `expected` does
VerbEmittedAs(expected) ==
    IF expected.ok
    THEN /\ raised.at # "verb"
         /\ pc = "values" => statement = expected.statement /\ values = expected.values
    ELSE pc = "raised" /\ raised.at = "verb" /\ raised.msg = expected.msg

\* C26: the head of an UPDATE is ` UPDATE `, the quoted table, ` AS ` and the
\* quoted alias when there is one, ` SET `, then one `"column" = expression`
\* per entry of `set`, comma-joined in the insertion order of the mapping,
\* the parameters in that order; without `table`, without `set`, or with a
\* `set` that is no mapping the call raises.
C26_UpdateHead ==
    VerbOf(criteria) = "update" /\ pc \in {"values", "raised"} =>
        IF /\ Has(criteria.update, "table") /\ Has(criteria.update, "set")
           /\ IsOrderedDict(criteria.update.set)
        THEN VerbEmittedAs(UpdateEmission(criteria.update, BeforeVerb))
        ELSE pc = "raised" /\ raised.at = "verb" /\ raised.exc = "ValueError"

\* a mapping of two entries given as d, c was written in that order
C26_Witness ==
    /\ VerbOf(criteria) = "update" /\ pc = "values"
    /\ Has(criteria.update, "alias")
    /\ Len(criteria.update.set.items) = 2
    /\ criteria.update.set.items[1].key = PyStr("d")
    /\ values = <<PyInt("2"), PyInt("1")>>
    /\ statement[Len(statement) - 1] = SQL(" = ")

\* the spec is a SELECT with an ORDER BY and nothing else
OneOrderBy == DOMAIN criteria = {"select", "order_by"}

\* the direction of an item is absent, ASC or DESC in any case of letters
DirectionValid(item) ==
    \/ ~Has(item, "direction")
    \/ IsStr(item.direction) /\ Upper(item.direction.lit) \in {"ASC", "DESC"}

\* ASC or DESC after the target, then the NULLS modifier the item gives
OrderByTail(item) ==
    <<SQL(" " \o (IF Has(item, "direction") THEN Upper(item.direction.lit) ELSE "ASC"))>>
    \o (IF Has(item, "nulls") THEN <<SQL(" NULLS " \o item.nulls.lit)>> ELSE <<>>)

RECURSIVE OrderByEmission(_, _, _)
\* the items from `index` on, comma-joined: the target, then the tail
OrderByEmission(items, index, r) ==
    IF ~r.ok \/ index > Len(items) THEN r
    ELSE OrderByEmission(
             items, index + 1,
             Emit(ep_parse_expression(
                      [key \in DOMAIN items[index] \ {"direction", "nulls"} |->
                          items[index][key]],
                      IF index > 1 THEN Emit(r, <<SQL(", ")>>) ELSE r,
                      NoJoiner, NoParser),
                  OrderByTail(items[index])))

\* C27: an ORDER BY item is written as its target expression compiled, then
\* ASC or DESC (ASC without `direction`, the token compared in upper case),
\* then NULLS FIRST or NULLS LAST when the item gives the modifier; any
\* other direction makes the call raise.
C27_OrderByItem ==
    OneOrderBy /\ pc \in {"limit", "raised"} =>
        IF \A i \in 1..Len(criteria.order_by.items) :
               DirectionValid(criteria.order_by.items[i])
        THEN EmittedAs(OrderByEmission(
                 criteria.order_by.items, 1,
                 Emit(step_verb(criteria, Ok(<<SQL("")>>, <<>>)), <<SQL(" ORDER BY ")>>)))
        ELSE pc = "raised" /\ raised.at = "order_by"

\* C28: a spec with none of delete, insert, select, update that has no
\* `combine` to supply the verb and is no VALUES fragment is rejected:
\* build_statement returns no command for it, the empty spec and a spec of
\* from, where and limit only included.
C28_FailClosedWithoutVerb ==
    /\ VerbOf(criteria) = "none"
    /\ ~Has(criteria, "combine") /\ ~Has(criteria, "values")
    => pc # "done"

\* C29: when build_statement is given the caller's parameter list and fails,
\* at whatever point, the list holds the entries it held before the call:
\* nothing the failed build appended is left in it (`values` is that list,
\* which every call of Spec is given empty).
C29_ListUnchangedOnError == pc = "raised" => values = <<>>

VerbKeys == {"delete", "insert", "select", "update"}

\* the spec without the verb keys that come after its first one
OneVerb(c) == [key \in DOMAIN c \ (VerbKeys \ {VerbOf(c)}) |-> c[key]]

\* C30: of the keys delete, insert, select, update a spec carries, only the
\* first in that order is written: the call ends as the call on the spec
\* without the other verb keys ends (same command and parameters, or same
\* exception), and the verb block writes the head of that verb first.
C30_OneVerb ==
    VerbOf(criteria) # "none" =>
        /\ Agrees(build_statement(OneVerb(criteria), <<>>))
        /\ pc = "values" =>
               statement[Len(BeforeVerb.statement) + 1] = SQL(ClauseKeyword("verb"))

\* a spec with insert, select and update was compiled as the INSERT alone
C30_Witness ==
    /\ DOMAIN criteria = {"insert", "select", "update"} /\ pc = "done"
    /\ returned.statement[2] = SQL(" INSERT INTO ")
    /\ \A i \in 1..Len(returned.statement) :
           returned.statement[i] \notin {SQL(" SELECT "), SQL(" UPDATE ")}
    /\ returned.values = <<>>

====
